---- MODULE Spec2Model ----
(***************************************************************************)
(* The geometry-to-instructions pipeline of sightmap: the segmenter, the   *)
(* relativizer, the stream parser and the step adjuster, and the           *)
(* components that display, generate and save the instructions of a path,  *)
(* the server's handler that builds the prompt, and the path creation of   *)
(* the floor editor, each modelled from its source.                        *)
(*                                                                         *)
(* Numbers.  The code works in IEEE doubles; the model works in exact      *)
(* integer and rational arithmetic on integer pixel coordinates.  A        *)
(* distance is never stored as a square root: it is kept as its square,    *)
(* a fraction [num, den] with den > 0, and every comparison of distances   *)
(* is a comparison of squares.                                             *)
(*                                                                         *)
(* Text.  A string is a sequence of one-character strings.                 *)
(***************************************************************************)
EXTENDS Integers, Sequences, FiniteSets, TLC

VARIABLES
    pc,          \* position of the modelled caller
    call,        \* helper call under way: the function and its arguments
    ret,         \* value the helper returned
    anchors,     \* calculatePathSegments: the anchors argument
    rooms,       \* calculatePathSegments: the allRooms argument
    segments,    \* PathSegment[] built by calculatePathSegments
    relative,    \* PathSegment[] returned by calculateRelativeDirections
    pending,     \* text the generation service has produced and not yet delivered
    emitted,     \* number of fragments the service has produced
    completion,  \* accumulated response text on the client
    parsedData,  \* parseCompletionContent(completion)
    stepSize,          \* RouteComponent: stepSize; InstructionsScreen: userSettings?.stepSize
    isLoggedIn,        \* RouteComponent: !!session
    serverStepSize,    \* userSettings.stepSize in the database
    settingsResponse,  \* userSettings.get: not enabled, sent, or the value served
    settingsData,      \* userSettingsData.data
    stepSizeUpdates,   \* updateStepSize mutations the server has not applied yet
    selected,          \* the last value the user chose in StepSizeSelector
    displayed,         \* the instruction lists as rendered
    caller,            \* who generates: the bulk hook or the InstructionsScreen
    navigatedAway,     \* the component that generates has been unmounted
    instructionSet,    \* path.instructionSet in the database, by path
    saveCalls,         \* inputs of the saveInstructions mutations issued
    paths,             \* generateBulkInstructions: the paths argument
    batchIndex,        \* generateBulkInstructions: batchIndex
    progress,          \* useBulkInstructionGeneration: progress, as last set
    inFlight,          \* paths whose generateInstructionsForPath has not returned
    results,           \* generateBulkInstructions: results
    finalResults,      \* generateBulkInstructions: the success count reported
    isGenerating,      \* useBulkInstructionGeneration: isGenerating
    floorRooms,         \* floor editor: the rooms of the floor, with their doors
    selectedRoomId,     \* floor editor: selectedRoomId
    pathCreationState,  \* floor editor: pathCreationState
    pathSourceRoomId,   \* floor editor: pathSourceRoomId
    pathDestinationRoomId,  \* floor editor: pathDestinationRoomId
    currentPathPoints,  \* floor editor: currentPathPoints
    createdPath         \* the arguments of the last onPathCreate call, if any

vars == <<pc, call, ret, anchors, rooms, segments, relative,
          pending, emitted, completion, parsedData,
          stepSize, isLoggedIn, serverStepSize, settingsResponse, settingsData,
          stepSizeUpdates, selected, displayed,
          caller, navigatedAway, instructionSet, saveCalls,
          paths, batchIndex, progress, inFlight, results, finalResults, isGenerating,
          floorRooms, selectedRoomId, pathCreationState, pathSourceRoomId,
          pathDestinationRoomId, currentPathPoints, createdPath>>

helperVars == <<call, ret>>
geoVars == <<anchors, rooms, segments, relative>>
streamVars == <<pending, emitted, completion, parsedData>>
routeVars == <<stepSize, isLoggedIn, serverStepSize, settingsResponse, settingsData,
               stepSizeUpdates, selected, displayed>>
saveVars == <<caller, navigatedAway, instructionSet, saveCalls>>
bulkVars == <<paths, batchIndex, progress, inFlight, results, finalResults, isGenerating>>
uiVars == <<routeVars, saveVars, bulkVars>>
editorVars == <<floorRooms, selectedRoomId, pathCreationState, pathSourceRoomId,
                pathDestinationRoomId, currentPathPoints, createdPath>>

(***************************************************************************)
(* Bounds of the model.                                                    *)
(***************************************************************************)
MaxCoord == 2
MaxAnchors == 3
MaxRooms == 2
MaxSegments == 3
MaxFragments == 5
MaxChunk == 3

(***************************************************************************)
(* Constants of the program.                                               *)
(***************************************************************************)
STEP_PIXELS == 20
NEARBY_PX == 100

(***************************************************************************)
(* Arithmetic helpers.                                                     *)
(***************************************************************************)
Abs(n) == IF n < 0 THEN -n ELSE n

RECURSIVE Gcd(_, _)
Gcd(a, b) == IF b = 0 THEN Abs(a) ELSE Gcd(b, a % Abs(b))

\* A non-negative fraction num/den, den > 0, in lowest terms.
Frac(num, den) ==
    LET g == Gcd(num, den)
    IN  [num |-> num \div g, den |-> den \div g]

FracLeq(f, n) == f.num <= n * f.den

Undefined == [undefined |-> TRUE]

NoValue == "none"

(***************************************************************************)
(* instructionGeneration: helper functions.                                *)
(***************************************************************************)
getDirectionTieHorizontal(from, to) ==
    LET dx == to.x - from.x
        dy == to.y - from.y
    IN  IF Abs(dx) >= Abs(dy)
        THEN (IF dx > 0 THEN "right" ELSE "left")
        ELSE (IF dy < 0 THEN "forward" ELSE "backwards")

getDirection(from, to) ==
    LET dx == to.x - from.x
        dy == to.y - from.y
    IN  IF Abs(dx) > Abs(dy)
        THEN (IF dx > 0 THEN "right" ELSE "left")
        ELSE (IF dy < 0 THEN "forward" ELSE "backwards")

\* The server's own copy of getDirection: it names the fourth direction
\* "backward".
serverGetDirection(from, to) ==
    LET dx == to.x - from.x
        dy == to.y - from.y
    IN  IF Abs(dx) > Abs(dy)
        THEN (IF dx > 0 THEN "right" ELSE "left")
        ELSE (IF dy < 0 THEN "forward" ELSE "backward")

directionToAngle(direction) ==
    CASE direction = "forward" -> 0
      [] direction = "right" -> 90
      [] direction = "backwards" -> 180
      [] direction = "left" -> 270
      [] OTHER -> 0

\* calculateTurnDirection with < 180 in place of <= 180.
calculateTurnDirectionStrict(currentFacing, targetDirection) ==
    LET angleDiff == (targetDirection - currentFacing + 360) % 360
    IN  IF angleDiff = 0 THEN "null"
        ELSE IF angleDiff < 180 THEN "right"
        ELSE "left"

calculateTurnDirection(currentFacing, targetDirection) ==
    LET angleDiff == (targetDirection - currentFacing + 360) % 360
    IN  IF angleDiff = 0 THEN "null"
        ELSE IF angleDiff <= 180 THEN "right"
        ELSE "left"

\* The squared length of the vector (ex/d, ey/d), d > 0, in lowest terms.
DistSq(ex, ey, d) ==
    LET g == Gcd(Gcd(ex, ey), d)
    IN  Frac((ex \div g) * (ex \div g) + (ey \div g) * (ey \div g),
             (d \div g) * (d \div g))

\* The distance to the infinite line through lineStart and lineEnd: the
\* projection parameter is never clamped.
getPerpendicularDistanceUnclamped(point, lineStart, lineEnd) ==
    LET A == point.x - lineStart.x
        B == point.y - lineStart.y
        C == lineEnd.x - lineStart.x
        D == lineEnd.y - lineStart.y
        dot == A * C + B * D
        lenSq == C * C + D * D
    IN  IF lenSq = 0 THEN DistSq(A, B, 1)
        ELSE LET param == IF dot >= 0 THEN Frac(dot, lenSq)
                          ELSE [num |-> -(Frac(-dot, lenSq).num),
                                den |-> Frac(-dot, lenSq).den]
                 xx == lineStart.x * param.den + param.num * C
                 yy == lineStart.y * param.den + param.num * D
             IN  DistSq(point.x * param.den - xx, point.y * param.den - yy,
                        param.den)

\* Returns the square of the code's result.  param = dot / lenSq is kept as
\* a fraction; xx and yy are kept over param's denominator.
getPerpendicularDistance(point, lineStart, lineEnd) ==
    LET A == point.x - lineStart.x
        B == point.y - lineStart.y
        C == lineEnd.x - lineStart.x
        D == lineEnd.y - lineStart.y
        dot == A * C + B * D
        lenSq == C * C + D * D
    IN  IF lenSq = 0 THEN DistSq(A, B, 1)
        ELSE IF dot < 0                        \* param < 0
        THEN DistSq(point.x - lineStart.x, point.y - lineStart.y, 1)
        ELSE IF dot > lenSq                    \* param > 1
        THEN DistSq(point.x - lineEnd.x, point.y - lineEnd.y, 1)
        ELSE LET param == Frac(dot, lenSq)
                 xx == lineStart.x * param.den + param.num * C
                 yy == lineStart.y * param.den + param.num * D
             IN  DistSq(point.x * param.den - xx, point.y * param.den - yy,
                        param.den)

(***************************************************************************)
(* The segmenter: calculatePathSegments.                                   *)
(***************************************************************************)
RECURSIVE IsqrtIn(_, _, _)
IsqrtIn(n, lo, hi) ==
    IF lo = hi THEN lo
    ELSE LET mid == (lo + hi + 1) \div 2
         IN  IF mid * mid <= n THEN IsqrtIn(n, mid, hi) ELSE IsqrtIn(n, lo, mid - 1)

\* floor(sqrt(n)), for 0 <= n < 2^30
Isqrt(n) == IsqrtIn(n, 0, 32767)

\* Math.round(Math.sqrt(distanceSq) / 20) with the floor in place of the
\* rounding.
truncSteps(distanceSq) == Isqrt(distanceSq) \div STEP_PIXELS

\* Math.round(Math.sqrt(distanceSq) / 20).  Math.round(v) is floor(v + 1/2),
\* and floor(sqrt(n) / 20 + 1/2) = floor((floor(sqrt n) + 10) / 20) because
\* 10 and 20 are integers.
roundSteps(distanceSq) ==
    (Isqrt(distanceSq) + STEP_PIXELS \div 2) \div STEP_PIXELS

anchorPoint(anchor) == [x |-> anchor.xCoords, y |-> anchor.yCoords]

Twice(p) == [x |-> 2 * p.x, y |-> 2 * p.y]

\* Twice the room's centre (x + width / 2, y + height / 2): the centre of a
\* box of odd size lies on a half pixel.
roomCenter2(room) ==
    [x |-> 2 * room.x + room.width, y |-> 2 * room.y + room.height]

\* The filter's predicate with < in place of <=.
isNearbyStrict(room, from, to) ==
    LET distance == getPerpendicularDistance(
                        roomCenter2(room), Twice(from), Twice(to))
    IN  distance.num < 4 * NEARBY_PX * NEARBY_PX * distance.den

\* The filter's predicate, distance <= 100, on coordinates scaled by two:
\* (2 * distance)^2 <= (2 * 100)^2.
isNearby(room, from, to) ==
    LET distance == getPerpendicularDistance(
                        roomCenter2(room), Twice(from), Twice(to))
    IN  FracLeq(distance, 4 * NEARBY_PX * NEARBY_PX)

RECURSIVE nearbyRoomsFrom(_, _, _, _)
nearbyRoomsFrom(allRooms, from, to, r) ==
    IF r > Len(allRooms) THEN <<>>
    ELSE (IF isNearby(allRooms[r], from, to)
          THEN <<allRooms[r].name>> ELSE <<>>)
         \o nearbyRoomsFrom(allRooms, from, to, r + 1)

\* The body of the loop for a pair whose two anchors are present.
pathSegment(from, to, allRooms) ==
    LET dx == to.xCoords - from.xCoords
        dy == to.yCoords - from.yCoords
    IN  [direction |-> getDirection(anchorPoint(from), anchorPoint(to)),
         steps |-> roundSteps(dx * dx + dy * dy),
         nearbyRooms |->
             nearbyRoomsFrom(allRooms, anchorPoint(from), anchorPoint(to), 1)]

\* The loop, from position i (1-based) on.
RECURSIVE pathSegmentsFrom(_, _, _)
pathSegmentsFrom(anchorList, allRooms, i) ==
    IF i >= Len(anchorList) THEN <<>>
    ELSE LET from == anchorList[i]
             to == anchorList[i + 1]
         IN  (IF from = Undefined \/ to = Undefined
              THEN <<>>
              ELSE <<pathSegment(from, to, allRooms)>>)
             \o pathSegmentsFrom(anchorList, allRooms, i + 1)

\* Insertion of an anchor into a list sorted by index.
RECURSIVE InsertByIndex(_, _)
InsertByIndex(a, sorted) ==
    IF sorted = <<>> THEN <<a>>
    ELSE IF a # Undefined /\ Head(sorted) # Undefined
            /\ a.index < Head(sorted).index
         THEN <<a>> \o sorted
         ELSE <<Head(sorted)>> \o InsertByIndex(a, Tail(sorted))

RECURSIVE SortByIndex(_)
SortByIndex(anchorList) ==
    IF anchorList = <<>> THEN <<>>
    ELSE InsertByIndex(anchorList[Len(anchorList)],
                       SortByIndex(SubSeq(anchorList, 1, Len(anchorList) - 1)))

\* calculatePathSegments, had it sorted the anchors by index first.
calculatePathSegmentsSorted(anchorList, allRooms) ==
    pathSegmentsFrom(SortByIndex(anchorList), allRooms, 1)

calculatePathSegments(anchorList, allRooms) ==
    pathSegmentsFrom(anchorList, allRooms, 1)

(***************************************************************************)
(* The relativizer: calculateRelativeDirections.                           *)
(***************************************************************************)
relativeDirectionOf(index, turnDirection) ==
    IF index = 1 THEN "Move forward"
    ELSE IF turnDirection # "null"
         THEN "Turn " \o turnDirection \o " and move forward"
         ELSE "Move forward"

\* The map callback applied from position index (1-based) on, with the
\* running currentFacingAngle.
RECURSIVE relativeFrom(_, _, _)
relativeFrom(segs, index, currentFacingAngle) ==
    IF index > Len(segs) THEN <<>>
    ELSE LET segment == segs[index]
             segmentAngle == directionToAngle(segment.direction)
             turnDirection ==
                 calculateTurnDirection(currentFacingAngle, segmentAngle)
         IN  <<[relativeDirection |-> relativeDirectionOf(index, turnDirection),
                facingDirection |-> segment.direction] @@ segment>>
             \o relativeFrom(segs, index + 1, segmentAngle)

\* calculateRelativeDirections with the walker facing forward (angle 0) at
\* the start, so that the first segment is given a turn of its own.
calculateRelativeDirectionsFacingForward(segs) ==
    IF Len(segs) = 0 THEN segs
    ELSE LET firstTurn ==
                 calculateTurnDirection(0, directionToAngle(segs[1].direction))
             rest == relativeFrom(segs, 1, directionToAngle(segs[1].direction))
         IN  [rest EXCEPT ![1].relativeDirection = relativeDirectionOf(2, firstTurn)]

\* calculateRelativeDirections leaving out the segments of zero steps.
calculateRelativeDirectionsDropEmpty(segs) ==
    LET Walked(segment) == segment.steps > 0
        kept == SelectSeq(segs, Walked)
    IN  IF Len(kept) = 0 THEN kept
        ELSE relativeFrom(kept, 1, directionToAngle(kept[1].direction))

calculateRelativeDirections(segs) ==
    IF Len(segs) = 0 THEN segs
    ELSE relativeFrom(segs, 1, directionToAngle(segs[1].direction))

(***************************************************************************)
(* Calls of the exported helpers, as the unit tests make them: the         *)
(* arguments are drawn in the initial state, the call returns in one step. *)
(***************************************************************************)
GridPoints == [x : -MaxCoord .. MaxCoord, y : -MaxCoord .. MaxCoord]

Angles == {0, 90, 180, 270}

HelperCalls ==
    [fn : {"getDirection", "serverGetDirection"},
     from : GridPoints, to : GridPoints]
    \cup [fn : {"getPerpendicularDistance"},
          point : GridPoints, lineStart : GridPoints, lineEnd : GridPoints]
    \cup [fn : {"calculateTurnDirection"},
          currentFacing : Angles, targetDirection : Angles]

NoParse == [steps |-> <<>>, conciseInstructions |-> <<>>]

GeoIdle ==
    /\ anchors = <<>>
    /\ rooms = <<>>
    /\ segments = <<>>
    /\ relative = <<>>

StreamIdle ==
    /\ pending = <<>>
    /\ emitted = 0
    /\ completion = <<>>
    /\ parsedData = NoParse

HelperIdle ==
    /\ call = [fn |-> NoValue]
    /\ ret = NoValue

\* useState<BulkGenerationProgress>({...})
NoProgress ==
    [totalPaths |-> 0, completedPaths |-> 0, failedPaths |-> 0,
     currentBatch |-> 0, totalBatches |-> 0, pathStatuses |-> <<>>]

NoDisplay == [descriptiveInstructions |-> <<>>, conciseInstructions |-> <<>>]

RouteIdle ==
    /\ stepSize = "MEDIUM"
    /\ isLoggedIn = FALSE
    /\ serverStepSize = "MEDIUM"
    /\ settingsResponse = NoValue
    /\ settingsData = "undefined"
    /\ stepSizeUpdates = <<>>
    /\ selected = NoValue
    /\ displayed = NoDisplay

SaveIdle ==
    /\ caller = NoValue
    /\ navigatedAway = FALSE
    /\ instructionSet = <<>>
    /\ saveCalls = <<>>

BulkIdle ==
    /\ paths = <<>>
    /\ batchIndex = 0
    /\ progress = NoProgress
    /\ inFlight = {}
    /\ results = <<>>
    /\ finalResults = 0
    /\ isGenerating = FALSE

UiIdle == RouteIdle /\ SaveIdle /\ BulkIdle

\* The floor editor as it is mounted, on a floor with no room
EditorIdle ==
    /\ floorRooms = <<>>
    /\ selectedRoomId = "null"
    /\ pathCreationState = "idle"
    /\ pathSourceRoomId = "null"
    /\ pathDestinationRoomId = "null"
    /\ currentPathPoints = <<>>
    /\ createdPath = <<>>

InitHelpers ==
    /\ EditorIdle
    /\ pc = "call"
    /\ call \in HelperCalls
    /\ ret = NoValue
    /\ GeoIdle
    /\ StreamIdle
    /\ UiIdle

GetDirection ==
    /\ pc = "call"
    /\ call.fn = "getDirection"
    /\ ret' = getDirection(call.from, call.to)
    /\ pc' = "return"
    /\ UNCHANGED <<call, geoVars, streamVars, uiVars, editorVars>>

ServerGetDirection ==
    /\ pc = "call"
    /\ call.fn = "serverGetDirection"
    /\ ret' = serverGetDirection(call.from, call.to)
    /\ pc' = "return"
    /\ UNCHANGED <<call, geoVars, streamVars, uiVars, editorVars>>

GetPerpendicularDistance ==
    /\ pc = "call"
    /\ call.fn = "getPerpendicularDistance"
    /\ ret' = getPerpendicularDistance(call.point, call.lineStart, call.lineEnd)
    /\ pc' = "return"
    /\ UNCHANGED <<call, geoVars, streamVars, uiVars, editorVars>>

CalculateTurnDirection ==
    /\ pc = "call"
    /\ call.fn = "calculateTurnDirection"
    /\ ret' = calculateTurnDirection(call.currentFacing, call.targetDirection)
    /\ pc' = "return"
    /\ UNCHANGED <<call, geoVars, streamVars, uiVars, editorVars>>

NextHelpers ==
    \/ GetDirection
    \/ ServerGetDirection
    \/ GetPerpendicularDistance
    \/ CalculateTurnDirection

SpecHelpers == InitHelpers /\ [][NextHelpers]_vars

(***************************************************************************)
(* The segmenter and the relativizer in sequence, as generateInstructions  *)
(* runs them.  The arguments are drawn in the initial state from three     *)
(* families:                                                               *)
(*   - one pair of anchors on a fine set of pixel coordinates, no rooms    *)
(*     (hops of 0, 5, 10, 50 and 150 px and the diagonals between them);   *)
(*   - up to MaxAnchors anchors on the corners of a 100 px square, in      *)
(*     index order, with up to MaxRooms rooms, two of which share a name;  *)
(*   - up to MaxAnchors anchors with missing elements and with index       *)
(*     values in any order, no rooms.                                      *)
(***************************************************************************)
RECURSIVE SeqsUpTo(_, _)
SeqsUpTo(S, n) ==
    IF n = 0 THEN {<<>>}
    ELSE LET shorter == SeqsUpTo(S, n - 1)
         IN  shorter \cup {Append(q, e) : q \in {t \in shorter : Len(t) = n - 1}, e \in S}

Anchor(i, xc, yc) == [index |-> i, xCoords |-> xc, yCoords |-> yc]

\* Anchors at the given points, index ascending from 0.
InIndexOrder(points) ==
    [i \in 1 .. Len(points) |-> Anchor(i - 1, points[i].x, points[i].y)]

FineCoords == {0, 5, 10, 50, 150}

FinePairs ==
    {InIndexOrder(<<p, q>>) : p \in [x : FineCoords, y : FineCoords],
                              q \in [x : FineCoords, y : FineCoords]}

SquareCorners == [x : {0, 100}, y : {0, 100}]

SquarePaths == {InIndexOrder(ps) : ps \in SeqsUpTo(SquareCorners, MaxAnchors)}

Room(n, xc, yc, w, h) ==
    [name |-> n, x |-> xc, y |-> yc, width |-> w, height |-> h]

SampleRooms ==
    {Room("A", 40, 90, 20, 20),      \* centre (50, 100)
     Room("B", 200, 0, 1, 0),        \* centre (200.5, 0)
     Room("C", 190, -10, 20, 20),    \* centre (200, 0)
     Room("A", 200, 0, 1, 0)}        \* a second room named A

RoomLists == SeqsUpTo(SampleRooms, MaxRooms)

HoledAnchors ==
    {Undefined} \cup
    {Anchor(i, p[1], p[2]) : i \in 0 .. MaxAnchors - 1,
                             p \in {<<0, 0>>, <<50, 0>>, <<50, 150>>}}

HoledPaths == SeqsUpTo(HoledAnchors, MaxAnchors)

SegmenterInputs ==
    (FinePairs \X {<<>>}) \cup (SquarePaths \X RoomLists)
        \cup (HoledPaths \X {<<>>})

InitSegments ==
    /\ EditorIdle
    /\ pc = "input"
    /\ \E input \in SegmenterInputs :
          /\ anchors = input[1]
          /\ rooms = input[2]
    /\ segments = <<>>
    /\ relative = <<>>
    /\ HelperIdle
    /\ StreamIdle
    /\ UiIdle

CalculatePathSegments ==
    /\ pc = "input"
    /\ segments' = calculatePathSegments(anchors, rooms)
    /\ pc' = "segmented"
    /\ UNCHANGED <<anchors, rooms, relative, helperVars, streamVars, uiVars, editorVars>>

CalculateRelativeDirections ==
    /\ pc = "segmented"
    /\ relative' = calculateRelativeDirections(segments)
    /\ pc' = "relativized"
    /\ UNCHANGED <<anchors, rooms, segments, helperVars, streamVars, uiVars, editorVars>>

NextSegments ==
    \/ CalculatePathSegments
    \/ CalculateRelativeDirections

SpecSegments == InitSegments /\ [][NextSegments]_vars

(***************************************************************************)
(* The relativizer called on its own, as its unit tests call it, on any    *)
(* list of up to MaxSegments segments.                                     *)
(***************************************************************************)
Directions == {"forward", "left", "right", "backwards"}

SampleSegments ==
    [direction : Directions, steps : {0, 5}, nearbyRooms : {<<>>, <<"Lab">>}]

InitRelative ==
    /\ EditorIdle
    /\ pc = "segmented"
    /\ segments \in SeqsUpTo(SampleSegments, MaxSegments)
    /\ anchors = <<>>
    /\ rooms = <<>>
    /\ relative = <<>>
    /\ HelperIdle
    /\ StreamIdle
    /\ UiIdle

SpecRelative == InitRelative /\ [][CalculateRelativeDirections]_vars

(***************************************************************************)
(* Text: the String methods and the two regular expressions that           *)
(* parseCompletionContent uses.                                            *)
(***************************************************************************)
NL == "\n"

\* \s : the white space of the modelled alphabet
IsSpace(c) == c \in {" ", NL, "\t", "\r"}

MinOf(S) == CHOOSE k \in S : \A m \in S : k <= m

MaxOf(S) == CHOOSE k \in S : \A m \in S : k >= m

\* Whether lit occurs in s at position i (1-based).
OccursAt(s, i, lit) ==
    /\ i >= 1
    /\ i + Len(lit) - 1 <= Len(s)
    /\ \A j \in 1 .. Len(lit) : s[i + j - 1] = lit[j]

\* s.startsWith(lit)
startsWith(s, lit) == OccursAt(s, 1, lit)

\* s.indexOf(lit, i), 1-based; 0 when lit does not occur from i on.
indexOfFrom(s, lit, i) ==
    LET at == {k \in i .. Len(s) - Len(lit) + 1 : OccursAt(s, k, lit)}
    IN  IF at = {} THEN 0 ELSE MinOf(at)

\* s.replace(lit, ""): the first occurrence of the string pattern is removed.
replaceFirst(s, lit) ==
    LET k == indexOfFrom(s, lit, 1)
    IN  IF k = 0 THEN s
        ELSE SubSeq(s, 1, k - 1) \o SubSeq(s, k + Len(lit), Len(s))

\* s.trim()
trim(s) ==
    LET solid == {k \in 1 .. Len(s) : ~IsSpace(s[k])}
    IN  IF solid = {} THEN <<>> ELSE SubSeq(s, MinOf(solid), MaxOf(solid))

\* s.split("\n"), from position i on: always at least one line.
RECURSIVE splitFrom(_, _)
splitFrom(s, i) ==
    LET k == indexOfFrom(s, <<NL>>, i)
    IN  IF k = 0 THEN <<SubSeq(s, i, Len(s))>>
        ELSE <<SubSeq(s, i, k - 1)>> \o splitFrom(s, k + 1)

splitLines(s) == splitFrom(s, 1)

\* The positions of the newlines that open\s*\n can end on when open is
\* matched at i: the newlines of the run of white space after open.
OpenerNewlines(content, open, i) ==
    {n \in i + Len(open) .. Len(content) :
        /\ content[n] = NL
        /\ \A m \in i + Len(open) .. n : IsSpace(content[m])}

\* content.match(/open\s*\n([\s\S]*?)(close|$)/)?.[1] || "".  The match
\* starts at the leftmost open that white space and a newline follow; the
\* greedy \s* gives back characters until \n matches, so the group begins
\* after the last newline of that run of white space; the lazy group ends
\* before the first close from there on, or at the end of content.
matchSection(content, open, close) ==
    LET starts == {i \in 1 .. Len(content) :
                      OccursAt(content, i, open)
                          /\ OpenerNewlines(content, open, i) # {}}
    IN  IF starts = {} THEN <<>>
        ELSE LET i == MinOf(starts)
                 g == MaxOf(OpenerNewlines(content, open, i)) + 1
                 e == indexOfFrom(content, close, g)
             IN  SubSeq(content, g, IF e = 0 THEN Len(content) ELSE e - 1)

SSTART == <<"S", "S", "T", "A", "R", "T">>
SEND == <<"S", "E", "N", "D">>
CSTART == <<"C", ":">>
EC == <<"E", "C">>
STEP == <<"S", "T", "E", "P", ":">>
STEPSP == <<"S", "T", "E", "P", ":", " ">>

parseCompletionContent(content) ==
    LET stepsSection == matchSection(content, SSTART, SEND)
        IsStep(line) == startsWith(line, STEP)
        Strip(line) == trim(replaceFirst(line, STEPSP))
        conciseSection == matchSection(content, CSTART, EC)
        NotBlank(line) == trim(line) # <<>>
        stepLines == SelectSeq(splitLines(stepsSection), IsStep)
    IN  [steps |-> [j \in 1 .. Len(stepLines) |-> Strip(stepLines[j])],
         conciseInstructions |-> SelectSeq(splitLines(conciseSection), NotBlank)]

(***************************************************************************)
(* The streaming read.  The generation service produces its response a     *)
(* fragment at a time, in any order (its text is not under the program's   *)
(* control); the client receives it in chunks cut at any character, adds   *)
(* each chunk to completion and parses the whole of completion again.      *)
(***************************************************************************)
Fragments ==
    {SSTART \o <<NL>>,
     STEPSP \o <<"a", NL>>,
     SEND \o <<NL>> \o CSTART \o <<NL>>,
     <<"b", NL>>,
     EC \o <<NL>>}

InitStream ==
    /\ EditorIdle
    /\ pc = "streaming"
    /\ pending = <<>>
    /\ emitted = 0
    /\ completion = <<>>
    /\ parsedData = parseCompletionContent(<<>>)
    /\ HelperIdle
    /\ GeoIdle
    /\ UiIdle

ServiceEmit ==
    /\ pc = "streaming"
    /\ pending = <<>>
    /\ emitted < MaxFragments
    /\ \E fragment \in Fragments : pending' = fragment
    /\ emitted' = emitted + 1
    /\ UNCHANGED <<pc, completion, parsedData, helperVars, geoVars, uiVars, editorVars>>

ReceiveChunk ==
    /\ pc = "streaming"
    /\ \E n \in 1 .. MaxChunk :
          /\ n <= Len(pending)
          /\ completion' = completion \o SubSeq(pending, 1, n)
          /\ pending' = SubSeq(pending, n + 1, Len(pending))
    /\ parsedData' = parseCompletionContent(completion')
    /\ UNCHANGED <<pc, emitted, helperVars, geoVars, uiVars, editorVars>>

NextStream ==
    \/ ServiceEmit
    \/ ReceiveChunk

SpecStream == InitStream /\ [][NextStream]_vars

(***************************************************************************)
(* The parser called once on a whole response: a buffer of up to MaxLines  *)
(* newline-terminated lines, which the generation service may write in any *)
(* order and with or without the space after the STEP: marker.             *)
(***************************************************************************)
MaxLines == 4

ResponseLines ==
    {SSTART,
     STEPSP \o <<"a", " ">>,
     STEP \o <<"a">>,
     STEPSP \o <<"b">>,
     SEND}

RECURSIVE JoinLines(_)
JoinLines(lines) ==
    IF lines = <<>> THEN <<>>
    ELSE Head(lines) \o <<NL>> \o JoinLines(Tail(lines))

InitParse ==
    /\ EditorIdle
    /\ pc = "parse"
    /\ \E lines \in SeqsUpTo(ResponseLines, MaxLines) :
          completion = JoinLines(lines)
    /\ parsedData = NoParse
    /\ pending = <<>>
    /\ emitted = 0
    /\ HelperIdle
    /\ GeoIdle
    /\ UiIdle

ParseCompletionContent ==
    /\ pc = "parse"
    /\ parsedData' = parseCompletionContent(completion)
    /\ pc' = "parsed"
    /\ UNCHANGED <<pending, emitted, completion, helperVars, geoVars, uiVars,
                   editorVars>>

SpecParse == InitParse /\ [][ParseCompletionContent]_vars

(***************************************************************************)
(* The step adjuster, adjustInstructionText.                               *)
(*                                                                         *)
(* Numbers.  multipliers holds the doubles nearest 1.4, 1.0 and 0.7; the   *)
(* model keeps them in tenths.  The doubles for 1.4 and 0.7 lie below the  *)
(* decimal values, by 0.4 units in the last place (0.4 * 2^-53 for 0.7).   *)
(* Math.round rounds half up, so the product is rounded as the decimal     *)
(* product is, except when the decimal product is k + 1/2 (LARGE with      *)
(* stepNumber = 5, 15, 25, ...): there the exact product of the doubles is *)
(* k + 1/2 - stepNumber * 0.4 * 2^-53, which the multiplication rounds to  *)
(* the double k + 1/2 when that is the nearer double (ties to even, which  *)
(* is k + 1/2), and to the double just below it otherwise.  With p the     *)
(* largest power of two not above k + 1/2, the doubles near k + 1/2 are    *)
(* p * 2^-52 apart, so the product is k + 1/2 iff 2 * stepNumber <= 5 * p. *)
(***************************************************************************)
StepSizes == {"SMALL", "MEDIUM", "LARGE"}

multipliersInverted(size) ==
    CASE size = "SMALL" -> 7
      [] size = "MEDIUM" -> 10
      [] size = "LARGE" -> 13

\* multipliers[stepSize], in tenths
multipliers(size) ==
    CASE size = "SMALL" -> 14
      [] size = "MEDIUM" -> 10
      [] size = "LARGE" -> 7

RECURSIVE Pow2Floor(_)
Pow2Floor(k) == IF k < 2 THEN 1 ELSE 2 * Pow2Floor(k \div 2)

\* Math.round(stepNumber * multipliers[stepSize])
adjustedStepNumber(stepNumber, size) ==
    LET tenths == stepNumber * multipliers(size)
        k == tenths \div 10
    IN  IF tenths % 10 # 5 THEN (tenths + 5) \div 10
        ELSE IF 2 * stepNumber <= 5 * Pow2Floor(k) THEN k + 1 ELSE k

DigitChars == <<"0", "1", "2", "3", "4", "5", "6", "7", "8", "9">>

IsDigit(c) == \E v \in 1 .. Len(DigitChars) : DigitChars[v] = c

DigitValue(c) == (CHOOSE v \in 1 .. Len(DigitChars) : DigitChars[v] = c) - 1

\* parseInt of a string of decimal digits
RECURSIVE parseInt(_)
parseInt(digits) ==
    IF digits = <<>> THEN 0
    ELSE 10 * parseInt(SubSeq(digits, 1, Len(digits) - 1))
            + DigitValue(digits[Len(digits)])

\* Number.prototype.toString of a non-negative integer
RECURSIVE toString(_)
toString(n) ==
    IF n < 10 THEN <<DigitChars[n + 1]>>
    ELSE toString(n \div 10) \o <<DigitChars[(n % 10) + 1]>>

\* /\{\{(\d+)\}\}/ matched at i: the position of the last digit, or 0.
markerLast(text, i) ==
    LET ends == {j \in i + 2 .. Len(text) - 2 :
                    /\ \A k \in i + 2 .. j : IsDigit(text[k])
                    /\ text[j + 1] = "}"
                    /\ text[j + 2] = "}"}
    IN  IF i + 1 <= Len(text) /\ text[i] = "{" /\ text[i + 1] = "{" /\ ends # {}
        THEN MinOf(ends) ELSE 0

\* text.match(/\{\{(\d+)\}\}/): the leftmost match; index 0 when there is none.
stepMatch(text) ==
    LET starts == {i \in 1 .. Len(text) : markerLast(text, i) # 0}
    IN  IF starts = {} THEN [index |-> 0, last |-> 0]
        ELSE [index |-> MinOf(starts), last |-> markerLast(text, MinOf(starts))]

\* replace(/[{}]/g, "")
removeBraces(text) == SelectSeq(text, LAMBDA c : c \notin {"{", "}"})

RECURSIVE adjustInstructionTextEveryMarker(_, _)
adjustInstructionTextEveryMarker(text, size) ==
    LET m == stepMatch(text)
    IN  IF size = "undefined" THEN text
        ELSE IF m.index = 0 THEN removeBraces(text)
        ELSE removeBraces(SubSeq(text, 1, m.index - 1))
                \o toString(adjustedStepNumber(
                       parseInt(SubSeq(text, m.index + 2, m.last)), size))
                \o adjustInstructionTextEveryMarker(
                       SubSeq(text, m.last + 3, Len(text)), size)

adjustInstructionText(text, size) ==
    IF size = "undefined" THEN text
    ELSE LET m == stepMatch(text)
             stepNumber == IF m.index = 0 THEN 0
                           ELSE parseInt(SubSeq(text, m.index + 2, m.last))
             cleanedText == IF m.index = 0 THEN text
                            ELSE SubSeq(text, 1, m.index - 1)
                                    \o toString(adjustedStepNumber(stepNumber, size))
                                    \o SubSeq(text, m.last + 3, Len(text))
         IN  removeBraces(cleanedText)

(***************************************************************************)
(* The step adjuster called on any text of up to MaxPieces pieces: a       *)
(* letter, a digit, a stray brace or a whole marker.                       *)
(***************************************************************************)
MaxPieces == 3

Marker(digits) == <<"{", "{">> \o digits \o <<"}", "}">>

TextPieces ==
    {<<"W">>, <<"7">>, <<"{">>, <<"}">>,
     Marker(<<"5">>), Marker(<<"1", "0">>), Marker(<<"4", "5">>), Marker(<<"0", "8">>)}

RECURSIVE Concat(_)
Concat(pieces) ==
    IF pieces = <<>> THEN <<>> ELSE Head(pieces) \o Concat(Tail(pieces))

AdjustCalls ==
    {[fn |-> "adjustInstructionText", text |-> Concat(pieces), stepSize |-> size] :
        pieces \in SeqsUpTo(TextPieces, MaxPieces),
        size \in StepSizes \cup {"undefined"}}

InitAdjust ==
    /\ EditorIdle
    /\ pc = "call"
    /\ call \in AdjustCalls
    /\ ret = NoValue
    /\ GeoIdle
    /\ StreamIdle
    /\ UiIdle

AdjustInstructionText ==
    /\ pc = "call"
    /\ call.fn = "adjustInstructionText"
    /\ ret' = adjustInstructionText(call.text, call.stepSize)
    /\ pc' = "return"
    /\ UNCHANGED <<call, geoVars, streamVars, uiVars, editorVars>>

SpecAdjust == InitAdjust /\ [][AdjustInstructionText]_vars

(***************************************************************************)
(* The instructions page of a path, RouteComponent.  The page keeps the    *)
(* stride preference in its state, starting from MEDIUM; for a logged-in   *)
(* user it asks the server for the user settings when it mounts and takes  *)
(* the step size from the answer when the answer arrives, and it sends     *)
(* every change of the selector to the server.  It renders the saved       *)
(* instructions of the path through adjustInstructionText on every render. *)
(***************************************************************************)
MaxUpdates == 2

\* instructions.map((instruction) => adjustInstructionText(instruction, stepSize))
adjustAll(instructions, size) ==
    [j \in 1 .. Len(instructions) |-> adjustInstructionText(instructions[j], size)]

\* adjustedDescriptiveInstructions and adjustedConciseInstructions of a path
\* whose instructionSet is absent (<<>>) or present (<<set>>).
render(saved, size) ==
    IF saved = <<>> THEN NoDisplay
    ELSE [descriptiveInstructions |-> adjustAll(saved[1].descriptiveInstructions, size),
          conciseInstructions |-> adjustAll(saved[1].conciseInstructions, size)]

SavedSets ==
    {[descriptiveInstructions |-> <<<<"W">> \o Marker(<<"1", "0">>)>>,
      conciseInstructions |-> <<Marker(<<"4", "5">>)>>],
     [descriptiveInstructions |-> <<Marker(<<"5">>), <<"W">>>>,
      conciseInstructions |-> <<>>]}

GenIdle ==
    /\ caller = NoValue
    /\ navigatedAway = FALSE
    /\ saveCalls = <<>>

InitRoute ==
    /\ EditorIdle
    /\ pc = "route"
    /\ stepSize = "MEDIUM"
    /\ isLoggedIn \in BOOLEAN
    /\ serverStepSize \in StepSizes \cup {NoValue}
    /\ settingsResponse = IF isLoggedIn THEN "sent" ELSE NoValue
    /\ settingsData = "undefined"
    /\ stepSizeUpdates = <<>>
    /\ selected = NoValue
    /\ instructionSet \in {<<<<>>>>} \cup {<<<<set>>>> : set \in SavedSets}
    /\ displayed = render(instructionSet[1], "MEDIUM")
    /\ GenIdle
    /\ BulkIdle
    /\ HelperIdle
    /\ GeoIdle
    /\ StreamIdle

\* handleStepSizeChange(newStepSize), and the render that follows
HandleStepSizeChange ==
    /\ pc = "route"
    /\ Len(stepSizeUpdates) < MaxUpdates
    /\ \E newStepSize \in StepSizes :
          /\ stepSize' = newStepSize
          /\ selected' = newStepSize
          /\ stepSizeUpdates' = IF isLoggedIn THEN Append(stepSizeUpdates, newStepSize)
                                ELSE stepSizeUpdates
          /\ displayed' = render(instructionSet[1], newStepSize)
    /\ UNCHANGED <<pc, isLoggedIn, serverStepSize, settingsResponse, settingsData,
                   saveVars, bulkVars, helperVars, geoVars, streamVars,
                   editorVars>>

\* userSettings.get on the server: the settings as they are when it runs
ServeSettings ==
    /\ pc = "route"
    /\ settingsResponse = "sent"
    /\ settingsResponse' = IF serverStepSize = NoValue THEN "error" ELSE serverStepSize
    /\ UNCHANGED <<pc, stepSize, isLoggedIn, serverStepSize, settingsData,
                   stepSizeUpdates, selected, displayed,
                   saveVars, bulkVars, helperVars, geoVars, streamVars,
                   editorVars>>

\* The answer of userSettings.get arrives: userSettingsData.data changes and
\* the effect sets the step size from it.
SettingsLoaded ==
    /\ pc = "route"
    /\ settingsResponse \in StepSizes \cup {"error"}
    /\ settingsResponse' = "settled"
    /\ IF settingsResponse = "error"
       THEN UNCHANGED <<settingsData, stepSize, displayed>>
       ELSE /\ settingsData' = settingsResponse
            /\ stepSize' = IF isLoggedIn THEN settingsResponse ELSE stepSize
            /\ displayed' = render(instructionSet[1], stepSize')
    /\ UNCHANGED <<pc, isLoggedIn, serverStepSize, stepSizeUpdates, selected,
                   saveVars, bulkVars, helperVars, geoVars, streamVars,
                   editorVars>>

\* userSettings.updateStepSize on the server
UpdateStepSize ==
    /\ pc = "route"
    /\ stepSizeUpdates # <<>>
    /\ serverStepSize' = Head(stepSizeUpdates)
    /\ stepSizeUpdates' = Tail(stepSizeUpdates)
    /\ UNCHANGED <<pc, stepSize, isLoggedIn, settingsResponse, settingsData,
                   selected, displayed,
                   saveVars, bulkVars, helperVars, geoVars, streamVars,
                   editorVars>>

NextRoute ==
    \/ HandleStepSizeChange
    \/ ServeSettings
    \/ SettingsLoaded
    \/ UpdateStepSize

SpecRoute == InitRoute /\ [][NextRoute]_vars

(***************************************************************************)
(* Generation and saving of the instructions of one path, by its two       *)
(* callers.  generateInstructionsForPath (the bulk hook) fetches, reads    *)
(* the stream to its end, parses and saves by itself; the                  *)
(* InstructionsScreen streams through useCompletion (isLoading while pc is *)
(* "fetch" or "reading"), parses on every render and saves when the user   *)
(* presses the save button.  The service answers with one of Responses,    *)
(* delivered in text deltas of up to MaxChunk characters (the framing of   *)
(* the deltas in server-sent events is left out); the stream can end or    *)
(* fail after any delta.  The screen is followed up to its saves: it can   *)
(* generate again and again until a save is issued, and then save up to    *)
(* MaxSaves times.                                                         *)
(***************************************************************************)
MaxSaves == 2

Responses ==
    {SSTART \o <<NL>> \o STEPSP \o <<"W">> \o Marker(<<"1", "0">>) \o <<NL>>
        \o SEND \o <<NL>> \o CSTART \o <<NL>> \o <<"b">> \o Marker(<<"5">>) \o <<NL>>
        \o EC \o <<NL>>,
     SSTART \o <<NL>> \o SEND \o <<NL>> \o CSTART \o <<NL>> \o EC \o <<NL>>}

PreviousSet ==
    [descriptiveInstructions |-> <<<<"W">> \o Marker(<<"4", "5">>)>>,
     conciseInstructions |-> <<>>]

savePayloadAdjusted(pathId, data) ==
    [pathId |-> pathId,
     descriptiveInstructions |-> adjustAll(data.steps, stepSize),
     conciseInstructions |-> adjustAll(data.conciseInstructions, stepSize)]

\* The input of saveInstructionsMutation.mutate / mutateAsync
savePayload(pathId, data) ==
    [pathId |-> pathId,
     descriptiveInstructions |-> data.steps,
     conciseInstructions |-> data.conciseInstructions]

shouldSaveAlways(data) == TRUE

pushResultIfSuccess(list, pathId, success) ==
    IF success THEN Append(list, [pathId |-> pathId, success |-> success]) ELSE list

\* generateInstructionsForPath: if (parsedData.steps.length > 0)
shouldSave(data) == Len(data.steps) > 0

\* results.push({ pathId: path.id, success })
pushResult(list, pathId, success) ==
    Append(list, [pathId |-> pathId, success |-> success])

isLoading == pc \in {"fetch", "reading"}

isPending == saveCalls # <<>> /\ saveCalls[Len(saveCalls)].state = "pending"

hasSavedInstructions ==
    IF instructionSet[1] = <<>> THEN FALSE
    ELSE \/ Len(instructionSet[1][1].descriptiveInstructions) > 0
         \/ Len(instructionSet[1][1].conciseInstructions) > 0

hasUnsavedChanges ==
    /\ ~isLoading
    /\ Len(parsedData.steps) > 0
    /\ IF ~hasSavedInstructions THEN TRUE
       ELSE \/ adjustAll(parsedData.steps, stepSize)
                  # adjustAll(instructionSet[1][1].descriptiveInstructions, stepSize)
            \/ adjustAll(parsedData.conciseInstructions, stepSize)
                  # adjustAll(instructionSet[1][1].conciseInstructions, stepSize)

InitGenerate ==
    /\ EditorIdle
    /\ caller \in {"bulk", "screen"}
    /\ navigatedAway = FALSE
    /\ pc = IF caller = "bulk" THEN "fetch" ELSE "idle"
    /\ stepSize \in StepSizes \cup {"undefined"}
    /\ instructionSet \in {<<<<>>>>, <<<<PreviousSet>>>>}
    /\ saveCalls = <<>>
    /\ results = <<>>
    /\ pending = <<>>
    /\ emitted = 0
    /\ completion = <<>>
    /\ parsedData = parseCompletionContent(<<>>)
    /\ isLoggedIn = TRUE
    /\ serverStepSize = IF stepSize = "undefined" THEN NoValue ELSE stepSize
    /\ settingsResponse = NoValue
    /\ settingsData = stepSize
    /\ stepSizeUpdates = <<>>
    /\ selected = NoValue
    /\ displayed = NoDisplay
    /\ paths = <<>>
    /\ batchIndex = 0
    /\ progress = NoProgress
    /\ inFlight = {}
    /\ finalResults = 0
    /\ isGenerating = FALSE
    /\ HelperIdle
    /\ GeoIdle

\* handleGenerateInstructions: complete(...) empties completion and loads
HandleGenerateInstructions ==
    /\ caller = "screen"
    /\ pc = "idle"
    /\ saveCalls = <<>>
    /\ pc' = "fetch"
    /\ completion' = <<>>
    /\ parsedData' = parseCompletionContent(<<>>)
    /\ pending' = <<>>
    /\ UNCHANGED <<emitted, saveVars, routeVars, bulkVars, helperVars, geoVars,
                   editorVars>>

\* The answer to POST /generate-instructions: a stream, an HTTP error, or no body
FetchResponds ==
    /\ pc = "fetch"
    /\ \/ /\ \E response \in Responses : pending' = response
          /\ pc' = "reading"
          /\ UNCHANGED results
       \/ /\ pending' = <<>>
          /\ pc' = IF caller = "bulk" THEN "returned" ELSE "idle"
          /\ results' = IF caller = "bulk" THEN pushResult(results, 1, FALSE) ELSE results
    /\ UNCHANGED <<emitted, completion, parsedData, saveVars, routeVars,
                   paths, batchIndex, progress, inFlight, finalResults, isGenerating,
                   helperVars, geoVars, editorVars>>

\* One text delta is read and added to completion
ReadDelta ==
    /\ pc = "reading"
    /\ \E n \in 1 .. MaxChunk :
          /\ n <= Len(pending)
          /\ completion' = completion \o SubSeq(pending, 1, n)
          /\ pending' = SubSeq(pending, n + 1, Len(pending))
    /\ parsedData' = parseCompletionContent(completion')
    /\ UNCHANGED <<pc, emitted, saveVars, routeVars, bulkVars, helperVars, geoVars,
                   editorVars>>

\* reader.read() throws, or useCompletion reports an error
ReadError ==
    /\ pc = "reading"
    /\ pc' = IF caller = "bulk" THEN "returned" ELSE "idle"
    /\ results' = IF caller = "bulk" THEN pushResult(results, 1, FALSE) ELSE results
    /\ UNCHANGED <<pending, emitted, completion, parsedData, saveVars, routeVars,
                   paths, batchIndex, progress, inFlight, finalResults, isGenerating,
                   helperVars, geoVars, editorVars>>

\* The stream ends (done): the bulk hook parses and saves or gives up, the
\* screen stops loading.
ReadDone ==
    /\ pc = "reading"
    /\ parsedData' = parseCompletionContent(completion)
    /\ IF caller = "bulk"
       THEN IF shouldSave(parsedData')
            THEN /\ saveCalls' = Append(saveCalls,
                                        [state |-> "pending"] @@ savePayload(1, parsedData'))
                 /\ pc' = "saving"
                 /\ UNCHANGED results
            ELSE /\ pc' = "returned"
                 /\ results' = pushResult(results, 1, FALSE)
                 /\ UNCHANGED saveCalls
       ELSE /\ pc' = "idle"
            /\ UNCHANGED <<saveCalls, results>>
    /\ UNCHANGED <<pending, emitted, completion, caller, navigatedAway, instructionSet, routeVars,
                   paths, batchIndex, progress, inFlight, finalResults, isGenerating,
                   helperVars, geoVars, editorVars>>

\* handleSaveInstructions, from the button shown while hasUnsavedChanges
HandleSaveInstructions ==
    /\ caller = "screen"
    /\ hasUnsavedChanges
    /\ ~isPending
    /\ Len(saveCalls) < MaxSaves
    /\ saveCalls' = IF Len(parsedData.steps) = 0 THEN saveCalls
                    ELSE Append(saveCalls,
                                [state |-> "pending"] @@ savePayload(1, parsedData))
    /\ UNCHANGED <<pc, caller, navigatedAway, instructionSet, streamVars, routeVars, bulkVars,
                   helperVars, geoVars, editorVars>>

\* floor.saveInstructions on the server: the upsert, or an error
SaveSettles ==
    /\ isPending
    /\ \E outcome \in {"success", "error"} :
          /\ saveCalls' = [saveCalls EXCEPT ![Len(saveCalls)].state = outcome]
          /\ instructionSet' =
                IF outcome = "success"
                THEN <<<<[descriptiveInstructions |->
                              saveCalls[Len(saveCalls)].descriptiveInstructions,
                          conciseInstructions |->
                              saveCalls[Len(saveCalls)].conciseInstructions]>>>>
                ELSE instructionSet
          /\ pc' = IF caller = "bulk" THEN "returned" ELSE pc
          /\ results' = IF caller = "bulk"
                        THEN pushResult(results, 1, outcome = "success")
                        ELSE results
    /\ UNCHANGED <<caller, navigatedAway, streamVars, routeVars,
                   paths, batchIndex, progress, inFlight, finalResults, isGenerating,
                   helperVars, geoVars, editorVars>>

\* The component that runs the bulk hook is unmounted while a path is being
\* generated.  The hook registers no cleanup, fetch is given no signal and
\* the reader is never cancelled: the read goes on as before.
NavigateAway ==
    /\ caller = "bulk"
    /\ pc \in {"fetch", "reading"}
    /\ ~navigatedAway
    /\ navigatedAway' = TRUE
    /\ UNCHANGED <<pc, caller, instructionSet, saveCalls, streamVars, routeVars,
                   bulkVars, helperVars, geoVars, editorVars>>

NextGenerate ==
    \/ NavigateAway
    \/ HandleGenerateInstructions
    \/ FetchResponds
    \/ ReadDelta
    \/ ReadError
    \/ ReadDone
    \/ HandleSaveInstructions
    \/ SaveSettles

SpecGenerate == InitGenerate /\ [][NextGenerate]_vars

(***************************************************************************)
(* Bulk generation, generateBulkInstructions, on the paths 1 .. n.  A path *)
(* is generated by generateInstructionsForPath, which is followed here     *)
(* from its start to its return: it ends in an error (HTTP error, no body, *)
(* read error) or reads a stream to its end, and then saves, if a step was *)
(* parsed, with or without success.                                        *)
(***************************************************************************)
MaxPaths == 3

batchSize == 10

\* Math.ceil(paths.length / 10)
totalBatches == (Len(paths) + batchSize - 1) \div batchSize

batchOverlapping(index) ==
    LET batchStart == index * batchSize
        batchEnd == IF batchStart + batchSize + 1 < Len(paths)
                    THEN batchStart + batchSize + 1 ELSE Len(paths)
    IN  {paths[i] : i \in batchStart + 1 .. batchEnd}

\* paths.slice(batchStart, batchEnd), as the set of its path ids
batch(index) ==
    LET batchStart == index * batchSize
        batchEnd == IF batchStart + batchSize < Len(paths)
                    THEN batchStart + batchSize ELSE Len(paths)
    IN  {paths[i] : i \in batchStart + 1 .. batchEnd}

initialProgress ==
    [totalPaths |-> Len(paths), completedPaths |-> 0, failedPaths |-> 0,
     currentBatch |-> 0, totalBatches |-> totalBatches,
     pathStatuses |-> [p \in 1 .. Len(paths) |-> "pending"]]

batchProgress(index) ==
    [initialProgress EXCEPT
        !.currentBatch = index + 1,
        !.pathStatuses = [p \in 1 .. Len(paths) |->
                             IF p \in batch(index) THEN "generating" ELSE "pending"]]

updatedProgress(index, pathId, success) ==
    [batchProgress(index) EXCEPT
        !.completedPaths = @ + (IF success THEN 1 ELSE 0),
        !.failedPaths = @ + (IF success THEN 0 ELSE 1),
        !.pathStatuses[pathId] = IF success THEN "completed" ELSE "failed"]

GenerationOutcomes ==
    {[kind |-> "error", completion |-> <<>>, saved |-> FALSE]}
        \cup [kind : {"done"}, completion : Responses, saved : BOOLEAN]

\* parseCompletionContent of the completion of every outcome
parsedOutcome ==
    [c \in {o.completion : o \in GenerationOutcomes} |-> parseCompletionContent(c)]

InitBulk ==
    /\ EditorIdle
    /\ pc = "bulk"
    /\ \E n \in 0 .. MaxPaths : paths = [i \in 1 .. n |-> i]
    /\ instructionSet = [i \in 1 .. Len(paths) |-> <<>>]
    /\ caller = "bulk"
    /\ navigatedAway = FALSE
    /\ saveCalls = <<>>
    /\ batchIndex = 0
    /\ progress = NoProgress
    /\ inFlight = {}
    /\ results = <<>>
    /\ finalResults = 0
    /\ isGenerating = FALSE
    /\ RouteIdle
    /\ HelperIdle
    /\ GeoIdle
    /\ StreamIdle

\* generateBulkInstructions(paths), up to the batch loop
GenerateBulkInstructions ==
    /\ pc = "bulk"
    /\ IF Len(paths) = 0
       THEN /\ pc' = "returned"
            /\ UNCHANGED <<isGenerating, progress, results, batchIndex>>
       ELSE /\ pc' = "loop"
            /\ isGenerating' = TRUE
            /\ progress' = initialProgress
            /\ results' = <<>>
            /\ batchIndex' = 0
    /\ UNCHANGED <<paths, inFlight, finalResults, saveVars, routeVars,
                   helperVars, geoVars, streamVars, editorVars>>

\* One turn of the batch loop: every path of the batch is started
StartBatch ==
    /\ pc = "loop"
    /\ batchIndex < totalBatches
    /\ progress' = batchProgress(batchIndex)
    /\ inFlight' = batch(batchIndex)
    /\ pc' = "await"
    /\ UNCHANGED <<paths, batchIndex, results, finalResults, isGenerating,
                   saveVars, routeVars, helperVars, geoVars, streamVars,
                   editorVars>>

\* The continuation of one batch promise: generateInstructionsForPath has
\* returned for pathId, its result is pushed and the progress is reported
settle(pathId, outcome) ==
    LET data == parsedOutcome[outcome.completion]
        saves == outcome.kind = "done" /\ shouldSave(data)
        success == saves /\ outcome.saved
    IN  /\ saveCalls' =
              IF saves
              THEN Append(saveCalls,
                          [state |-> IF outcome.saved THEN "success" ELSE "error"]
                              @@ savePayload(pathId, data))
              ELSE saveCalls
        /\ instructionSet' =
              IF success
              THEN [instructionSet EXCEPT ![pathId] =
                       <<[descriptiveInstructions |-> data.steps,
                          conciseInstructions |-> data.conciseInstructions]>>]
              ELSE instructionSet
        /\ results' = pushResult(results, pathId, success)
        /\ progress' = updatedProgress(batchIndex, pathId, success)
        /\ inFlight' = inFlight \ {pathId}

\* generateInstructionsForPath returns for one path of the batch
PathSettles ==
    /\ pc = "await"
    /\ \E pathId \in inFlight, outcome \in GenerationOutcomes :
          settle(pathId, outcome)
    /\ UNCHANGED <<pc, caller, navigatedAway, paths, batchIndex, finalResults, isGenerating,
                   routeVars, helperVars, geoVars, streamVars,
                   editorVars>>

\* await Promise.all(batchPromises) returns
BatchSettles ==
    /\ pc = "await"
    /\ inFlight = {}
    /\ batchIndex' = batchIndex + 1
    /\ pc' = "loop"
    /\ UNCHANGED <<paths, progress, inFlight, results, finalResults, isGenerating,
                   saveVars, routeVars, helperVars, geoVars, streamVars,
                   editorVars>>

\* After the loop: onComplete(results) and the toast with the success count
BulkComplete ==
    /\ pc = "loop"
    /\ batchIndex >= totalBatches
    /\ isGenerating' = FALSE
    /\ finalResults' = Cardinality({k \in 1 .. Len(results) : results[k].success})
    /\ pc' = "complete"
    /\ UNCHANGED <<paths, batchIndex, progress, inFlight, results,
                   saveVars, routeVars, helperVars, geoVars, streamVars,
                   editorVars>>

NextBulk ==
    \/ GenerateBulkInstructions
    \/ StartBatch
    \/ PathSettles
    \/ BatchSettles
    \/ BulkComplete

SpecBulk == InitBulk /\ [][NextBulk]_vars

(***************************************************************************)
(* Bulk generation on more paths than one batch holds.  The requests of a  *)
(* batch are followed in two of their completion orders, input order and   *)
(* reverse input order, and with two of their outcomes, an error before    *)
(* the stream is read and a saved response: the batch loop awaits the      *)
(* whole batch whatever the order and the outcomes are, and the other      *)
(* orders and outcomes are followed in SpecBulk.                           *)
(***************************************************************************)
ExtraPaths == 1

BatchOutcomes ==
    {o \in GenerationOutcomes :
        o.kind = "error" \/ (o.saved /\ shouldSave(parseCompletionContent(o.completion)))}

\* The paths of the current batch that come before / after pathId in the input
earlierInBatch(pathId) == {p \in batch(batchIndex) : p < pathId}

laterInBatch(pathId) == {p \in batch(batchIndex) : p > pathId}

InitBatches ==
    /\ EditorIdle
    /\ pc = "bulk"
    /\ \E n \in batchSize + 1 .. batchSize + ExtraPaths : paths = [i \in 1 .. n |-> i]
    /\ instructionSet = [i \in 1 .. Len(paths) |-> <<>>]
    /\ caller = "bulk"
    /\ navigatedAway = FALSE
    /\ saveCalls = <<>>
    /\ batchIndex = 0
    /\ progress = NoProgress
    /\ inFlight = {}
    /\ results = <<>>
    /\ finalResults = 0
    /\ isGenerating = FALSE
    /\ RouteIdle
    /\ HelperIdle
    /\ GeoIdle
    /\ StreamIdle

\* generateInstructionsForPath returns for the first or the last path of the
\* batch that is still in flight, always from the same end of the batch
PathSettlesInOrder ==
    /\ pc = "await"
    /\ \E pathId \in inFlight, outcome \in BatchOutcomes :
          /\ \/ inFlight \ {pathId} = laterInBatch(pathId)
             \/ inFlight \ {pathId} = earlierInBatch(pathId)
          /\ settle(pathId, outcome)
    /\ UNCHANGED <<pc, caller, navigatedAway, paths, batchIndex, finalResults, isGenerating,
                   routeVars, helperVars, geoVars, streamVars,
                   editorVars>>

NextBatches ==
    \/ GenerateBulkInstructions
    \/ StartBatch
    \/ PathSettlesInOrder
    \/ BatchSettles
    \/ BulkComplete

SpecBatches == InitBatches /\ [][NextBatches]_vars

(***************************************************************************)
(* floor.saveInstructions on the server.  Clients issue saves for the      *)
(* paths of SavePaths; the saves that are pending are applied, or fail, in *)
(* any order, so that saves of overlapping generation cycles reach the     *)
(* table in an order that is not the order they were issued in.            *)
(***************************************************************************)
MaxCalls == 3

SavePaths == 1 .. 2

upsertCreateAlways(table, input) ==
    [table EXCEPT ![input.pathId] =
        Append(@, [descriptiveInstructions |-> input.descriptiveInstructions,
                   conciseInstructions |-> input.conciseInstructions])]

\* prisma.instructionSet.upsert({ where: { pathId }, update, create })
upsert(table, input) ==
    IF table[input.pathId] = <<>>
    THEN [table EXCEPT ![input.pathId] =
             <<[descriptiveInstructions |-> input.descriptiveInstructions,
                conciseInstructions |-> input.conciseInstructions]>>]
    ELSE [table EXCEPT
             ![input.pathId][1].descriptiveInstructions = input.descriptiveInstructions,
             ![input.pathId][1].conciseInstructions = input.conciseInstructions]

InitSave ==
    /\ EditorIdle
    /\ pc = "server"
    /\ instructionSet \in [SavePaths -> {<<>>, <<PreviousSet>>}]
    /\ caller = NoValue
    /\ navigatedAway = FALSE
    /\ saveCalls = <<>>
    /\ RouteIdle
    /\ BulkIdle
    /\ HelperIdle
    /\ GeoIdle
    /\ StreamIdle

\* A client calls saveInstructionsMutation with the lists it has parsed
SaveInstructions ==
    /\ pc = "server"
    /\ Len(saveCalls) < MaxCalls
    /\ \E pathId \in SavePaths, set \in SavedSets :
          saveCalls' = Append(saveCalls,
                              [state |-> "pending", pathId |-> pathId,
                               descriptiveInstructions |-> set.descriptiveInstructions,
                               conciseInstructions |-> set.conciseInstructions])
    /\ UNCHANGED <<pc, caller, navigatedAway, instructionSet, routeVars, bulkVars,
                   helperVars, geoVars, streamVars, editorVars>>

\* The mutation of one pending call runs: the upsert
UpsertApplies ==
    /\ pc = "server"
    /\ \E k \in 1 .. Len(saveCalls) :
          /\ saveCalls[k].state = "pending"
          /\ instructionSet' = upsert(instructionSet, saveCalls[k])
          /\ saveCalls' = [saveCalls EXCEPT ![k].state = "success"]
    /\ UNCHANGED <<pc, caller, navigatedAway, routeVars, bulkVars, helperVars, geoVars, streamVars,
                   editorVars>>

\* The call is rejected (no session, invalid input) or the database fails
UpsertFails ==
    /\ pc = "server"
    /\ \E k \in 1 .. Len(saveCalls) :
          /\ saveCalls[k].state = "pending"
          /\ saveCalls' = [saveCalls EXCEPT ![k].state = "error"]
    /\ UNCHANGED <<pc, caller, navigatedAway, instructionSet, routeVars, bulkVars,
                   helperVars, geoVars, streamVars, editorVars>>

NextSave ==
    \/ SaveInstructions
    \/ UpsertApplies
    \/ UpsertFails

SpecSave == InitSave /\ [][NextSave]_vars

(***************************************************************************)
(* The server's POST /generate-instructions handler, one request at a      *)
(* time.  The request body is what the client sent: text that is not JSON, *)
(* or a JSON value; its prompt field, when there is one, is a string that  *)
(* is the JSON text of a value or is not.  The database holds one path,    *)
(* ExistingPath, with the anchors and the rooms of its floor.               *)
(***************************************************************************)
ExistingPath == "p1"

\* Values of the pathId field of the prompt: absent, null, or a string
PathIdValues == {"undefined", "null", "", "p1", "p2"}

\* What JSON.parse(body.prompt) is given, by what it makes of it
PromptStrings ==
    {Undefined, [parses |-> FALSE], [parses |-> TRUE, type |-> "null"],
     [parses |-> TRUE, type |-> "number"]}
        \cup [parses : {TRUE}, type : {"object"}, pathId : PathIdValues]

\* What c.req.json() is given
Bodies ==
    {[json |-> FALSE], [json |-> TRUE, type |-> "null"]}
        \cup [json : {TRUE}, type : {"object"}, prompt : PromptStrings]

\* try { promptString = body.prompt; promptData = JSON.parse(promptString);
\*       pathId = promptData.pathId } catch: does the block throw
promptThrows(body) ==
    IF body.type = "null" THEN TRUE
    ELSE IF body.prompt = Undefined THEN TRUE
    ELSE IF ~body.prompt.parses THEN TRUE
    ELSE body.prompt.type = "null"

\* pathId after the try block
pathIdOf(body) ==
    IF body.prompt.type = "object" THEN body.prompt.pathId ELSE "undefined"

falsyNever(value) == FALSE

\* !pathId
falsy(value) == value \in {"undefined", "null", ""}

errorResponse(status, error) == [status |-> status, stream |-> FALSE, error |-> error]

\* The server's own calculatePathSegments
RECURSIVE serverPathSegmentsFrom(_, _, _)
serverPathSegmentsFrom(anchorList, allRooms, i) ==
    IF i >= Len(anchorList) THEN <<>>
    ELSE LET from == anchorList[i]
             to == anchorList[i + 1]
             dx == to.xCoords - from.xCoords
             dy == to.yCoords - from.yCoords
         IN  <<[direction |-> serverGetDirection(anchorPoint(from), anchorPoint(to)),
                steps |-> roundSteps(dx * dx + dy * dy),
                nearbyRooms |->
                    nearbyRoomsFrom(allRooms, anchorPoint(from), anchorPoint(to), 1)]>>
             \o serverPathSegmentsFrom(anchorList, allRooms, i + 1)

serverCalculatePathSegments(anchorList, allRooms) ==
    serverPathSegmentsFrom(anchorList, allRooms, 1)

\* directions.indexOf(direction), counted from 0
serverDirIndex(direction) ==
    CASE direction = "forward" -> 0
      [] direction = "right" -> 1
      [] direction = "backward" -> 2
      [] direction = "left" -> 3
      [] OTHER -> -1

\* The server's own calculateRelativeDirections: the map callback
serverRelativeDirection(segs, index) ==
    IF index = 1 THEN segs[index].direction
    ELSE LET prevDirIndex == serverDirIndex(segs[index - 1].direction)
             currentDirIndex == serverDirIndex(segs[index].direction)
             turnAmount == (currentDirIndex - prevDirIndex + 4) % 4
         IN  IF prevDirIndex = currentDirIndex
             THEN "continue " \o segs[index].direction
             ELSE CASE turnAmount = 1 -> "turn right and " \o segs[index].direction
                    [] turnAmount = 3 -> "turn left and " \o segs[index].direction
                    [] turnAmount = 2 -> "turn around and " \o segs[index].direction
                    [] OTHER -> segs[index].direction

serverCalculateRelativeDirections(segs) ==
    [index \in 1 .. Len(segs) |->
        [relativeDirection |-> serverRelativeDirection(segs, index)] @@ segs[index]]

\* The characters of a phrase or of a room name
chars(str) ==
    CASE str = "Move forward" ->
            <<"M", "o", "v", "e", " ", "f", "o", "r", "w", "a", "r", "d">>
      [] str = "Turn right and move forward" ->
            <<"T", "u", "r", "n", " ", "r", "i", "g", "h", "t", " ", "a",
            "n", "d", " ", "m", "o", "v", "e", " ", "f", "o", "r", "w",
            "a", "r", "d">>
      [] str = "Turn left and move forward" ->
            <<"T", "u", "r", "n", " ", "l", "e", "f", "t", " ", "a", "n",
            "d", " ", "m", "o", "v", "e", " ", "f", "o", "r", "w", "a",
            "r", "d">>
      [] str = "forward" ->
            <<"f", "o", "r", "w", "a", "r", "d">>
      [] str = "continue forward" ->
            <<"c", "o", "n", "t", "i", "n", "u", "e", " ", "f", "o", "r",
            "w", "a", "r", "d">>
      [] str = "turn right and forward" ->
            <<"t", "u", "r", "n", " ", "r", "i", "g", "h", "t", " ", "a",
            "n", "d", " ", "f", "o", "r", "w", "a", "r", "d">>
      [] str = "turn left and forward" ->
            <<"t", "u", "r", "n", " ", "l", "e", "f", "t", " ", "a", "n",
            "d", " ", "f", "o", "r", "w", "a", "r", "d">>
      [] str = "turn around and forward" ->
            <<"t", "u", "r", "n", " ", "a", "r", "o", "u", "n", "d", " ",
            "a", "n", "d", " ", "f", "o", "r", "w", "a", "r", "d">>
      [] str = "right" ->
            <<"r", "i", "g", "h", "t">>
      [] str = "continue right" ->
            <<"c", "o", "n", "t", "i", "n", "u", "e", " ", "r", "i", "g",
            "h", "t">>
      [] str = "turn right and right" ->
            <<"t", "u", "r", "n", " ", "r", "i", "g", "h", "t", " ", "a",
            "n", "d", " ", "r", "i", "g", "h", "t">>
      [] str = "turn left and right" ->
            <<"t", "u", "r", "n", " ", "l", "e", "f", "t", " ", "a", "n",
            "d", " ", "r", "i", "g", "h", "t">>
      [] str = "turn around and right" ->
            <<"t", "u", "r", "n", " ", "a", "r", "o", "u", "n", "d", " ",
            "a", "n", "d", " ", "r", "i", "g", "h", "t">>
      [] str = "backward" ->
            <<"b", "a", "c", "k", "w", "a", "r", "d">>
      [] str = "continue backward" ->
            <<"c", "o", "n", "t", "i", "n", "u", "e", " ", "b", "a", "c",
            "k", "w", "a", "r", "d">>
      [] str = "turn right and backward" ->
            <<"t", "u", "r", "n", " ", "r", "i", "g", "h", "t", " ", "a",
            "n", "d", " ", "b", "a", "c", "k", "w", "a", "r", "d">>
      [] str = "turn left and backward" ->
            <<"t", "u", "r", "n", " ", "l", "e", "f", "t", " ", "a", "n",
            "d", " ", "b", "a", "c", "k", "w", "a", "r", "d">>
      [] str = "turn around and backward" ->
            <<"t", "u", "r", "n", " ", "a", "r", "o", "u", "n", "d", " ",
            "a", "n", "d", " ", "b", "a", "c", "k", "w", "a", "r", "d">>
      [] str = "left" ->
            <<"l", "e", "f", "t">>
      [] str = "continue left" ->
            <<"c", "o", "n", "t", "i", "n", "u", "e", " ", "l", "e", "f",
            "t">>
      [] str = "turn right and left" ->
            <<"t", "u", "r", "n", " ", "r", "i", "g", "h", "t", " ", "a",
            "n", "d", " ", "l", "e", "f", "t">>
      [] str = "turn left and left" ->
            <<"t", "u", "r", "n", " ", "l", "e", "f", "t", " ", "a", "n",
            "d", " ", "l", "e", "f", "t">>
      [] str = "turn around and left" ->
            <<"t", "u", "r", "n", " ", "a", "r", "o", "u", "n", "d", " ",
            "a", "n", "d", " ", "l", "e", "f", "t">>
      [] str = "A" ->
            <<"A">>
      [] str = "B" ->
            <<"B">>
      [] str = "C" ->
            <<"C">>

\* names.join(", ")
RECURSIVE joinNames(_)
joinNames(names) ==
    IF Len(names) = 0 THEN <<>>
    ELSE IF Len(names) = 1 THEN chars(names[1])
    ELSE chars(names[1]) \o <<",", " ">> \o joinNames(Tail(names))

conciseLineFromZero(index, segment) ==
    toString(index - 1) \o <<".", " ">> \o chars(segment.relativeDirection) \o <<" ">>
        \o Marker(toString(segment.steps)) \o <<" ", "s", "t", "e", "p", "s">>

\* `${index + 1}. ${relativeDirection} {{${steps}}} steps`, index from 1 here
conciseLine(index, segment) ==
    toString(index) \o <<".", " ">> \o chars(segment.relativeDirection) \o <<" ">>
        \o Marker(toString(segment.steps)) \o <<" ", "s", "t", "e", "p", "s">>

\* A line of the MOVEMENT SEGMENTS block of the prompt
movementLine(index, segment) ==
    conciseLine(index, segment)
        \o (IF Len(segment.nearbyRooms) > 0
            THEN <<" ", "(", "n", "e", "a", "r", " ">>
                    \o joinNames(segment.nearbyRooms) \o <<")">>
            ELSE <<>>)

movementSegments(segs) == [index \in 1 .. Len(segs) |-> movementLine(index, segs[index])]

\* The requests that name the existing path meet every path of the database,
\* the other requests one path
HandlerInputs ==
    {<<body, anchorList, allRooms>> \in
        Bodies \X SquarePaths \X ({<<>>} \cup {<<room>> : room \in SampleRooms}) :
          \/ (body.json /\ ~promptThrows(body) /\ pathIdOf(body) = ExistingPath)
          \/ (Len(anchorList) = 2 /\ allRooms = <<>>
                /\ anchorList[1].xCoords = 0 /\ anchorList[1].yCoords = 0
                /\ anchorList[2].xCoords = 0 /\ anchorList[2].yCoords = 0)}

InitHandler ==
    /\ EditorIdle
    /\ pc = "request"
    /\ \E input \in HandlerInputs :
          /\ call = [fn |-> "POST /generate-instructions", body |-> input[1]]
          /\ anchors = input[2]
          /\ rooms = input[3]
    /\ ret = NoValue
    /\ segments = <<>>
    /\ relative = <<>>
    /\ StreamIdle
    /\ UiIdle

\* const body = await c.req.json(), outside any try: the framework answers
\* 500 when it throws
ReadBody ==
    /\ pc = "request"
    /\ IF call.body.json
       THEN pc' = "body" /\ UNCHANGED ret
       ELSE /\ ret' = errorResponse(500, "Internal Server Error")
            /\ pc' = "responded"
    /\ UNCHANGED <<call, geoVars, streamVars, uiVars, editorVars>>

\* The try block around JSON.parse(body.prompt), and if (!pathId)
ParsePrompt ==
    /\ pc = "body"
    /\ IF promptThrows(call.body)
       THEN /\ ret' = errorResponse(400, "Invalid request format")
            /\ pc' = "responded"
       ELSE IF falsy(pathIdOf(call.body))
       THEN /\ ret' = errorResponse(400, "pathId is required")
            /\ pc' = "responded"
       ELSE pc' = "lookup" /\ UNCHANGED ret
    /\ UNCHANGED <<call, geoVars, streamVars, uiVars, editorVars>>

\* await prisma.path.findUnique, which may reject, and if (!path)
FindPath ==
    /\ pc = "lookup"
    /\ \E rejects \in BOOLEAN :
          IF rejects
          THEN /\ ret' = errorResponse(500, "Failed to generate instructions")
               /\ pc' = "responded"
          ELSE IF pathIdOf(call.body) # ExistingPath
          THEN /\ ret' = errorResponse(404, "Path not found")
               /\ pc' = "responded"
          ELSE pc' = "found" /\ UNCHANGED ret
    /\ UNCHANGED <<call, geoVars, streamVars, uiVars, editorVars>>

\* await prisma.room.findMany, which may reject; the segments, the prompt and
\* streamText(...).toUIMessageStreamResponse()
StreamInstructions ==
    /\ pc = "found"
    /\ \E rejects \in BOOLEAN :
          IF rejects
          THEN /\ ret' = errorResponse(500, "Failed to generate instructions")
               /\ UNCHANGED <<segments, relative>>
          ELSE /\ segments' = serverCalculatePathSegments(anchors, rooms)
               /\ relative' = serverCalculateRelativeDirections(segments')
               /\ ret' = [status |-> 200, stream |-> TRUE,
                          prompt |-> movementSegments(relative')]
    /\ pc' = "responded"
    /\ UNCHANGED <<call, anchors, rooms, streamVars, uiVars, editorVars>>

NextHandler ==
    \/ ReadBody
    \/ ParsePrompt
    \/ FindPath
    \/ StreamInstructions

SpecHandler == InitHandler /\ [][NextHandler]_vars

(***************************************************************************)
(* generateInstructions of instructionGeneration, the builder, followed by *)
(* a response of the generation service that reproduces the format the     *)
(* prompt asks for, and by the client's parse of that response.            *)
(***************************************************************************)
LongPaths ==
    {InIndexOrder(<<[x |-> 0, y |-> 300], [x |-> 0, y |-> 0]>>),
     InIndexOrder(<<[x |-> 0, y |-> 0], [x |-> 2000, y |-> 0], [x |-> 2000, y |-> 100]>>)}

BuilderInputs ==
    ({"p1"} \X (SquarePaths \cup LongPaths) \X ({<<>>} \cup {<<room>> : room \in SampleRooms}))
        \cup ({"p2"} \X {<<>>} \X {<<>>})

\* The STEP lines of a response: the service's own words
StepLines ==
    {<<>>,
     <<STEPSP \o <<"W">> \o Marker(<<"1", "0">>)>>,
     <<STEPSP \o <<"W">> \o Marker(<<"8">>), STEPSP \o <<"E", "C">>>>}

\* relativeSegments.map((segment, index) => ...)
conciseInstructionsOf(segs) == [index \in 1 .. Len(segs) |-> conciseLine(index, segs[index])]

\* lines.join("\n")
RECURSIVE joinLines(_)
joinLines(lines) ==
    IF Len(lines) = 0 THEN <<>>
    ELSE IF Len(lines) = 1 THEN lines[1]
    ELSE lines[1] \o <<NL>> \o joinLines(Tail(lines))

\* The response the prompt asks for: SSTART, the STEP lines, SEND, C:, the
\* concise list joined by newlines, EC
requestedFormat(stepLines, concise) ==
    SSTART \o <<NL>>
        \o Concat([j \in 1 .. Len(stepLines) |-> stepLines[j] \o <<NL>>])
        \o SEND \o <<NL>> \o CSTART \o <<NL>>
        \o joinLines(concise) \o <<NL>> \o EC \o <<NL>>

InitBuilder ==
    /\ EditorIdle
    /\ pc = "build"
    /\ \E input \in BuilderInputs :
          /\ call = [fn |-> "generateInstructions", pathId |-> input[1]]
          /\ anchors = input[2]
          /\ rooms = input[3]
    /\ ret = NoValue
    /\ segments = <<>>
    /\ relative = <<>>
    /\ StreamIdle
    /\ UiIdle

\* generateInstructions(pathId): throws for a path that is not found, and
\* otherwise builds the concise list and the prompt and starts the stream
GenerateInstructions ==
    /\ pc = "build"
    /\ IF call.pathId # ExistingPath
       THEN /\ ret' = [thrown |-> "Path not found"]
            /\ pc' = "thrown"
            /\ UNCHANGED <<segments, relative>>
       ELSE /\ segments' = calculatePathSegments(anchors, rooms)
            /\ relative' = calculateRelativeDirections(segments')
            /\ ret' = [conciseInstructions |-> conciseInstructionsOf(relative'),
                       prompt |-> movementSegments(relative')]
            /\ pc' = "streaming"
    /\ UNCHANGED <<call, anchors, rooms, streamVars, uiVars, editorVars>>

\* The service answers in the requested format and the client has read it all
ServiceReproducesFormat ==
    /\ pc = "streaming"
    /\ \E stepLines \in StepLines :
          completion' = requestedFormat(stepLines, ret.conciseInstructions)
    /\ pc' = "received"
    /\ UNCHANGED <<pending, emitted, parsedData, helperVars, geoVars, uiVars,
                   editorVars>>

\* parseCompletionContent(completion) on the client
ParseResponse ==
    /\ pc = "received"
    /\ parsedData' = parseCompletionContent(completion)
    /\ pc' = "parsed"
    /\ UNCHANGED <<pending, emitted, completion, helperVars, geoVars, uiVars,
                   editorVars>>

NextBuilder ==
    \/ GenerateInstructions
    \/ ServiceReproducesFormat
    \/ ParseResponse

SpecBuilder == InitBuilder /\ [][NextBuilder]_vars

(***************************************************************************)
(* The floor editor: path creation on the drawing canvas.  The floor has   *)
(* two rooms of two cells by two on a canvas of WorldCells by WorldCells;  *)
(* each room has a door, set by a click on its border, or none.  The user  *)
(* selects a room, starts a path from it, clicks on the canvas, takes      *)
(* points back, cancels, or leaves the room's details with the back        *)
(* button.  A path under construction holds up to MaxPoints points.        *)
(***************************************************************************)
MaxPoints == 2

gridSize == 20

WorldCells == 0 .. 3

\* Where a click can fall: the corner and the centre of every cell
ClickPositions ==
    [x : {gridSize * c + o : c \in WorldCells, o \in {0, 10}},
     y : {gridSize * c + o : c \in WorldCells, o \in {0, 10}}]

\* doorX and doorY are both null or both numbers: doorSet tells which
NoDoor == [doorSet |-> FALSE, doorX |-> 0, doorY |-> 0]

EditorRoom(id, xc, yc, door) ==
    [id |-> id, x |-> xc, y |-> yc, width |-> 2 * gridSize, height |-> 2 * gridSize,
     doorSet |-> door.doorSet, doorX |-> door.doorX, doorY |-> door.doorY]

\* The floors: room r1 with no door or a door under its bottom edge, room r2
\* with no door or a door above its top edge
Floors ==
    {<<EditorRoom("r1", 0, 0, door1), EditorRoom("r2", 40, 40, door2)>> :
        door1 \in {NoDoor, [doorSet |-> TRUE, doorX |-> 20, doorY |-> 40]},
        door2 \in {NoDoor, [doorSet |-> TRUE, doorX |-> 0, doorY |-> -20]}}

snapToGridCenter(pos) ==
    [x |-> (pos.x \div gridSize) * gridSize + gridSize \div 2,
     y |-> (pos.y \div gridSize) * gridSize + gridSize \div 2]

getOrthogonalPrediction(fromPoint, mousePos) ==
    LET dx == mousePos.x - fromPoint.x
        dy == mousePos.y - fromPoint.y
    IN  IF Abs(dx) > Abs(dy)
        THEN snapToGridCenter([x |-> mousePos.x, y |-> fromPoint.y])
        ELSE snapToGridCenter([x |-> fromPoint.x, y |-> mousePos.y])

isInRoomInterior(pos, room) ==
    /\ pos.x >= room.x
    /\ pos.x <= room.x + room.width
    /\ pos.y >= room.y
    /\ pos.y <= room.y + room.height

\* rooms.find(pred): the positions of the rooms that satisfy it, first first
roomIndex(id) == {i \in 1 .. Len(floorRooms) : floorRooms[i].id = id}

\* room.doorX !== null && room.doorY !== null
hasDoor(room) == room.doorSet

doorPosition(room) == [x |-> room.x + room.doorX, y |-> room.y + room.doorY]

undoAllowedAlways(points) == Len(points) > 0

\* handleUndoLastPoint: if (currentPathPoints.length > 1)
undoAllowed(points) == Len(points) > 1

InitEditor ==
    /\ pc = "editor"
    /\ floorRooms \in Floors
    /\ selectedRoomId = "null"
    /\ pathCreationState = "idle"
    /\ pathSourceRoomId = "null"
    /\ pathDestinationRoomId = "null"
    /\ currentPathPoints = <<>>
    /\ createdPath = <<>>
    /\ HelperIdle
    /\ GeoIdle
    /\ StreamIdle
    /\ UiIdle

\* A room is chosen in the list or on the canvas, which both select only
\* while no path is being created
HandleRoomClick ==
    /\ pathCreationState = "idle"
    /\ \E i \in 1 .. Len(floorRooms) : selectedRoomId' = floorRooms[i].id
    /\ UNCHANGED <<pc, floorRooms, pathCreationState, pathSourceRoomId,
                   pathDestinationRoomId, currentPathPoints, createdPath,
                   helperVars, geoVars, streamVars, uiVars>>

\* The back button of the sidebar header, shown with the room's details and
\* with the notices of path creation
HandleBackToRooms ==
    /\ selectedRoomId # "null"
    /\ selectedRoomId' = "null"
    /\ UNCHANGED <<pc, floorRooms, pathCreationState, pathSourceRoomId,
                   pathDestinationRoomId, currentPathPoints, createdPath,
                   helperVars, geoVars, streamVars, uiVars>>

\* handlePathCreateStart(room.id), from the details of the selected room
HandlePathCreateStart ==
    /\ pathCreationState = "idle"
    /\ selectedRoomId # "null"
    /\ pathSourceRoomId' = selectedRoomId
    /\ pathCreationState' = "selecting_destination"
    /\ UNCHANGED <<pc, floorRooms, selectedRoomId, pathDestinationRoomId,
                   currentPathPoints, createdPath,
                   helperVars, geoVars, streamVars, uiVars>>

\* handlePathMouseDown while a destination is looked for
SelectDestination(worldPos) ==
    LET snappedPos == snapToGridCenter(worldPos)
        clicked == {i \in 1 .. Len(floorRooms) :
                       /\ isInRoomInterior(snappedPos, floorRooms[i])
                       /\ floorRooms[i].id # selectedRoomId}
        source == roomIndex(selectedRoomId)
    IN  /\ pathCreationState = "selecting_destination"
        /\ IF clicked = {}
           THEN UNCHANGED <<pathDestinationRoomId, pathCreationState, currentPathPoints>>
           ELSE /\ pathDestinationRoomId' = floorRooms[MinOf(clicked)].id
                /\ IF source # {} /\ (\A i \in source : hasDoor(floorRooms[i]))
                   THEN /\ pathCreationState' = "drawing_path"
                        /\ currentPathPoints' =
                              <<snapToGridCenter(doorPosition(floorRooms[MinOf(source)]))>>
                   ELSE UNCHANGED <<pathCreationState, currentPathPoints>>
        /\ UNCHANGED <<selectedRoomId, pathSourceRoomId, createdPath>>

\* handlePathMouseDown while the path is drawn: the path is completed when
\* the predicted point is close to the destination door, and handed to
\* handlePathCreate of the editor, and otherwise the predicted point is added
DrawPath(worldPos) ==
    LET dest == roomIndex(pathDestinationRoomId)
        canComplete == /\ dest # {}
                       /\ \A i \in dest : hasDoor(floorRooms[i])
                       /\ Len(currentPathPoints) > 0
        lastPoint == currentPathPoints[Len(currentPathPoints)]
        orthogonalPos == getOrthogonalPrediction(lastPoint, worldPos)
        doorPos == doorPosition(floorRooms[MinOf(dest)])
        closeToDoor ==
            IF canComplete
            THEN (orthogonalPos.x - doorPos.x) * (orthogonalPos.x - doorPos.x)
                    + (orthogonalPos.y - doorPos.y) * (orthogonalPos.y - doorPos.y)
                        < gridSize * gridSize
            ELSE FALSE
    IN  /\ pathCreationState = "drawing_path"
        /\ IF closeToDoor
           THEN /\ createdPath' =
                      IF selectedRoomId # "null"
                      THEN <<[fromRoomId |-> selectedRoomId,
                              toRoomId |-> floorRooms[MinOf(dest)].id,
                              anchors |-> Append(currentPathPoints,
                                                 snapToGridCenter(doorPos))]>>
                      ELSE createdPath
                /\ pathSourceRoomId' =
                      IF selectedRoomId # "null" THEN "null" ELSE pathSourceRoomId
                /\ pathCreationState' = "idle"
                /\ currentPathPoints' = <<>>
                /\ pathDestinationRoomId' = "null"
                /\ UNCHANGED selectedRoomId
           ELSE /\ IF Len(currentPathPoints) > 0
                   THEN /\ Len(currentPathPoints) < MaxPoints
                        /\ currentPathPoints' = Append(currentPathPoints, orthogonalPos)
                   ELSE UNCHANGED currentPathPoints
                /\ UNCHANGED <<createdPath, pathCreationState, pathDestinationRoomId,
                               selectedRoomId, pathSourceRoomId>>

\* handleMouseDown on the canvas while pathCreationState is not idle
HandlePathMouseDown ==
    /\ \E worldPos \in ClickPositions :
          SelectDestination(worldPos) \/ DrawPath(worldPos)
    /\ UNCHANGED <<pc, floorRooms, helperVars, geoVars, streamVars, uiVars>>

\* handleUndoLastPoint, from the notice shown while the path is drawn
HandleUndoLastPoint ==
    /\ pathCreationState = "drawing_path"
    /\ IF undoAllowed(currentPathPoints)
       THEN currentPathPoints' = SubSeq(currentPathPoints, 1, Len(currentPathPoints) - 1)
       ELSE UNCHANGED currentPathPoints
    /\ UNCHANGED <<pc, floorRooms, selectedRoomId, pathCreationState, pathSourceRoomId,
                   pathDestinationRoomId, createdPath,
                   helperVars, geoVars, streamVars, uiVars>>

\* handlePathCreateCancel, with the canvas's cancelPathCreation it calls
HandlePathCreateCancel ==
    /\ pathCreationState # "idle"
    /\ pathCreationState' = "idle"
    /\ currentPathPoints' = <<>>
    /\ pathDestinationRoomId' = "null"
    /\ selectedRoomId' = pathSourceRoomId
    /\ pathSourceRoomId' = "null"
    /\ UNCHANGED <<pc, floorRooms, createdPath,
                   helperVars, geoVars, streamVars, uiVars>>

NextEditor ==
    \/ HandleRoomClick
    \/ HandleBackToRooms
    \/ HandlePathCreateStart
    \/ HandlePathMouseDown
    \/ HandleUndoLastPoint
    \/ HandlePathCreateCancel

SpecEditor == InitEditor /\ [][NextEditor]_vars

(***************************************************************************)
(* Claims about the helpers.                                               *)
(***************************************************************************)
Returned(f) == pc = "return" /\ call.fn = f

\* The classification the specification states, with the name of the fourth
\* direction left open.
ClaimedDirection(dx, dy, back) ==
    IF Abs(dx) > Abs(dy)
    THEN (IF dx > 0 THEN "right" ELSE "left")
    ELSE (IF dy < 0 THEN "forward" ELSE back)

\* C1: with dx = to.x - from.x and dy = to.y - from.y, getDirection returns
\* right when |dx| > |dy| and dx > 0, left when |dx| > |dy| and dx <= 0, and
\* otherwise (ties included) forward when dy < 0 and the backward direction
\* when dy >= 0; a diagonal pair is never left or right and a zero-length
\* pair is backward.  Both copies of getDirection are covered; "the backward
\* direction" is "backwards" in instructionGeneration and "backward" in the
\* server.
C1_GetDirection ==
    (pc = "return" /\ call.fn \in {"getDirection", "serverGetDirection"}) =>
        LET dx == call.to.x - call.from.x
            dy == call.to.y - call.from.y
            back == IF call.fn = "getDirection" THEN "backwards" ELSE "backward"
        IN  /\ ret = ClaimedDirection(dx, dy, back)
            /\ Abs(dx) = Abs(dy) => ret \notin {"left", "right"}
            /\ (dx = 0 /\ dy = 0) => ret = back

\* C1 witness: a diagonal pair going up and to the left has been classified,
\* and came out forward.
C1_Witness ==
    /\ Returned("getDirection")
    /\ call.to.x - call.from.x = -MaxCoord
    /\ call.to.y - call.from.y = -MaxCoord
    /\ ret = "forward"

SqDist(p, q) == (p.x - q.x) * (p.x - q.x) + (p.y - q.y) * (p.y - q.y)

\* C4: getPerpendicularDistance is the distance to the closed segment: below
\* projection parameter 0 the distance to start, above 1 the distance to end,
\* otherwise the distance to the projected point (by Pythagoras,
\* |p - start|^2 - dot^2 / lenSq); for start = end the distance to that point.
\* The result never exceeds the distance to either endpoint.
C4_PointToSegment ==
    Returned("getPerpendicularDistance") =>
        LET p == call.point
            s == call.lineStart
            e == call.lineEnd
            dot == (p.x - s.x) * (e.x - s.x) + (p.y - s.y) * (e.y - s.y)
            lenSq == SqDist(s, e)
        IN  /\ ret.den > 0
            /\ s = e => ret.num = SqDist(p, s) * ret.den
            /\ (s # e /\ dot < 0) => ret.num = SqDist(p, s) * ret.den
            /\ (s # e /\ dot > lenSq) => ret.num = SqDist(p, e) * ret.den
            /\ (s # e /\ dot >= 0 /\ dot <= lenSq) =>
                  ret.num * lenSq = (SqDist(p, s) * lenSq - dot * dot) * ret.den
            /\ ret.num <= SqDist(p, s) * ret.den
            /\ ret.num <= SqDist(p, e) * ret.den

\* C4 witness: the test's case scaled to the grid, a point behind the start
\* of a horizontal segment and off its line, judged by its distance to start.
C4_Witness ==
    /\ Returned("getPerpendicularDistance")
    /\ call.lineStart = [x |-> 0, y |-> 0]
    /\ call.lineEnd = [x |-> 2, y |-> 0]
    /\ call.point = [x |-> -1, y |-> 1]
    /\ ret = [num |-> 2, den |-> 1]

(***************************************************************************)
(* Claims about the segmenter.                                             *)
(***************************************************************************)
\* Positions i with anchors[i] and anchors[i + 1] both present.
PairPositions == {i \in 1 .. Len(anchors) - 1 :
                      anchors[i] # Undefined /\ anchors[i + 1] # Undefined}

\* The place in segments of the segment of pair position i.
Rank(i) == Cardinality({j \in PairPositions : j <= i})

Segmented == pc \in {"segmented", "relativized"}

PairDx(i) == anchors[i + 1].xCoords - anchors[i].xCoords
PairDy(i) == anchors[i + 1].yCoords - anchors[i].yCoords
PairDistSq(i) == PairDx(i) * PairDx(i) + PairDy(i) * PairDy(i)

\* n = round-half-up(sqrt(dsq) / 20), said without a square root:
\* n - 1/2 <= sqrt(dsq) / 20 < n + 1/2.
IsRoundedSteps(n, dsq) ==
    /\ n \in Nat
    /\ n >= 1 => (STEP_PIXELS * n - 10) * (STEP_PIXELS * n - 10) <= dsq
    /\ dsq < (STEP_PIXELS * n + 10) * (STEP_PIXELS * n + 10)

\* C2: every segment's steps is round-half-up(d / 20) for the distance d of
\* its two anchors, a non-negative integer; d < 10 (d = 0 included) gives 0,
\* d = 50 gives 3 and d = 150 gives 8.
C2_StepsRounded ==
    Segmented =>
        /\ Len(segments) = Cardinality(PairPositions)
        /\ \A i \in PairPositions :
              LET n == segments[Rank(i)].steps
                  dsq == PairDistSq(i)
              IN  /\ IsRoundedSteps(n, dsq)
                  /\ dsq < 10 * 10 => n = 0
                  /\ dsq = 50 * 50 => n = 3
                  /\ dsq = 150 * 150 => n = 8

\* C2 witness: a hop of 150 px has been segmented into 8 steps.
C2_Witness ==
    /\ pc = "segmented"
    /\ Len(anchors) = 2
    /\ PairDx(1) = 0
    /\ PairDy(1) = 150
    /\ segments = <<[direction |-> "backwards", steps |-> 8, nearbyRooms |-> <<>>]>>

\* Whether the room's centre lies within 100 px of the segment [from, to],
\* by the cross product: beside the segment the distance to its line is
\* |cross| / |to - from|, before its start or past its end the distance to
\* that endpoint.  Coordinates are doubled, so the centre is integral.
ClaimedNearby(room, from, to) ==
    LET px == 2 * room.x + room.width
        py == 2 * room.y + room.height
        A == px - 2 * from.xCoords
        B == py - 2 * from.yCoords
        C == 2 * (to.xCoords - from.xCoords)
        D == 2 * (to.yCoords - from.yCoords)
        dot == A * C + B * D
        lenSq == C * C + D * D
        limitSq == (2 * NEARBY_PX) * (2 * NEARBY_PX)
    IN  IF lenSq = 0 \/ dot <= 0 THEN A * A + B * B <= limitSq
        ELSE IF dot >= lenSq
        THEN (A - C) * (A - C) + (B - D) * (B - D) <= limitSq
        ELSE LET h == Gcd(C, D)
                 k == A * (D \div h) - B * (C \div h)
             IN  k * k <= limitSq * ((C \div h) * (C \div h) + (D \div h) * (D \div h))

InSeq(e, q) == \E j \in 1 .. Len(q) : q[j] = e

\* C3 as stated: for every segment and every supplied room, the room's name
\* is in nearbyRooms if and only if the room's centre is within 100 px of the
\* segment.
C3_NameIffNearby ==
    Segmented =>
        \A i \in PairPositions : \A r \in 1 .. Len(rooms) :
            InSeq(rooms[r].name, segments[Rank(i)].nearbyRooms)
                <=> ClaimedNearby(rooms[r], anchors[i], anchors[i + 1])

\* C3 as amended: nearbyRooms is exactly the names of the supplied rooms whose
\* centre is within 100 px of the segment (100 included), one entry for each
\* such room, in the order supplied; so a room's name is in nearbyRooms if the
\* room is within 100 px, and only if some room of that name is.
C3_NearbyRoomsExact ==
    Segmented =>
        \A i \in PairPositions :
            LET Near(room) == ClaimedNearby(room, anchors[i], anchors[i + 1])
                near == SelectSeq(rooms, Near)
            IN  segments[Rank(i)].nearbyRooms =
                    [j \in 1 .. Len(near) |-> near[j].name]

\* C3 witness: room C, supplied first, is exactly 100 px past the end of the
\* first segment and exactly 100 px from the second; room A is exactly 100 px
\* from the first and 50 px from the second.  Both are listed by both
\* segments, C before A.
C3_Witness ==
    /\ pc = "segmented"
    /\ anchors = InIndexOrder(<<[x |-> 0, y |-> 0], [x |-> 100, y |-> 0],
                                [x |-> 100, y |-> 100]>>)
    /\ rooms = <<Room("C", 190, -10, 20, 20), Room("A", 40, 90, 20, 20)>>
    /\ segments[1].nearbyRooms = <<"C", "A">>
    /\ segments[2].nearbyRooms = <<"C", "A">>

\* C5: with fewer than 2 anchors the result is empty; otherwise there is
\* exactly one segment for each consecutive pair whose two elements are both
\* present, in list order (so at most n - 1 segments), each computed from its
\* own pair as the list gives it, whatever the anchors' index fields say.
C5_OneSegmentPerPresentPair ==
    Segmented =>
        /\ Len(anchors) < 2 => segments = <<>>
        /\ Len(segments) = Cardinality(PairPositions)
        /\ Len(anchors) >= 1 => Len(segments) <= Len(anchors) - 1
        /\ \A i \in PairPositions :
              /\ segments[Rank(i)].direction =
                     ClaimedDirection(PairDx(i), PairDy(i), "backwards")
              /\ IsRoundedSteps(segments[Rank(i)].steps, PairDistSq(i))

\* C5 witness: three elements, the last one missing and the first two with
\* their index fields in descending order, have given one segment, the one
\* from the first element to the second.
C5_Witness ==
    /\ pc = "segmented"
    /\ Len(anchors) = 3
    /\ anchors[3] = Undefined
    /\ anchors[1] = Anchor(1, 50, 150)
    /\ anchors[2] = Anchor(0, 50, 0)
    /\ segments = <<[direction |-> "forward", steps |-> 8, nearbyRooms |-> <<>>]>>

(***************************************************************************)
(* Claims about the relativizer.                                           *)
(***************************************************************************)
Relativized == pc = "relativized"

\* C6: in every non-empty list the segment at index 0 gets "Move forward",
\* whatever its absolute direction.
C6_FirstMovesForward ==
    (Relativized /\ Len(segments) > 0) =>
        /\ Len(relative) > 0
        /\ relative[1].relativeDirection = "Move forward"

\* C6 witness: a list that starts to the left and then turns has been
\* relativized, and its first segment says "Move forward".
C6_Witness ==
    /\ Relativized
    /\ Len(segments) >= 2
    /\ segments[1].direction = "left"
    /\ segments[2].direction = "backwards"
    /\ relative[1].relativeDirection = "Move forward"

\* The angles the specification gives the directions.
ClaimedAngle(direction) ==
    CASE direction = "forward" -> 0
      [] direction = "right" -> 90
      [] direction = "backwards" -> 180
      [] direction = "left" -> 270

\* C7: for i > 0 the relativeDirection is a function of the directions of
\* segments i - 1 and i alone: with angleDiff = (angle_i - angle_{i-1} + 360)
\* mod 360 it is "Move forward" for 0, "Turn right and move forward" for
\* 0 < angleDiff <= 180 and "Turn left and move forward" above 180.
C7_TurnFromPreviousSegment ==
    Relativized =>
        /\ Len(relative) = Len(segments)
        /\ \A i \in 2 .. Len(segments) :
              LET angleDiff == (ClaimedAngle(segments[i].direction)
                                - ClaimedAngle(segments[i - 1].direction) + 360) % 360
              IN  relative[i].relativeDirection =
                      IF angleDiff = 0 THEN "Move forward"
                      ELSE IF angleDiff <= 180 THEN "Turn right and move forward"
                      ELSE "Turn left and move forward"

\* C7 witness: after a right turn, a full reversal (right to left) came out as
\* "Turn right and move forward".
C7_Witness ==
    /\ Relativized
    /\ Len(segments) = 3
    /\ segments[1].direction = "forward"
    /\ segments[2].direction = "right"
    /\ segments[3].direction = "left"
    /\ relative[3].relativeDirection = "Turn right and move forward"

\* C8: the output has the length of the input and, index by index, the
\* input's direction, steps and nearbyRooms, with facingDirection equal to
\* the segment's own direction.
C8_OnlyEnriches ==
    Relativized =>
        /\ Len(relative) = Len(segments)
        /\ \A i \in 1 .. Len(segments) :
              /\ relative[i].direction = segments[i].direction
              /\ relative[i].steps = segments[i].steps
              /\ relative[i].nearbyRooms = segments[i].nearbyRooms
              /\ relative[i].facingDirection = segments[i].direction

\* C8 witness: a list with a zero-step segment and a segment with a nearby
\* room has been relativized into a list of the same length.
C8_Witness ==
    /\ Relativized
    /\ Len(segments) = 3
    /\ segments[2].steps = 0
    /\ segments[3].nearbyRooms = <<"Lab">>
    /\ segments[3].direction = "left"
    /\ Len(relative) = 3
    /\ relative[3].facingDirection = "left"

(***************************************************************************)
(* Claims about the stream parser.                                         *)
(***************************************************************************)
IsPrefixOf(q, r) == Len(q) <= Len(r) /\ \A j \in 1 .. Len(q) : q[j] = r[j]

\* C9: when the buffer grows from P1 to P2 (P1 a prefix of P2, cut at any
\* character), the steps of P1 are a prefix of, or equal to, the steps of P2.
C9_StepsMonotonic ==
    [][IsPrefixOf(parsedData.steps, parsedData'.steps)]_vars

\* The buffer cut back to its last newline: all its terminated lines.
TerminatedLines(content) ==
    LET nls == {k \in 1 .. Len(content) : content[k] = NL}
    IN  IF nls = {} THEN <<>> ELSE SubSeq(content, 1, MaxOf(nls))

\* C10: while the buffer ends in a line that no newline has terminated, that
\* line is no entry of steps or of conciseInstructions: the parse is the
\* parse of the terminated lines alone.
C10_PartialLineExcluded ==
    (completion # <<>> /\ completion[Len(completion)] # NL) =>
        parsedData = parseCompletionContent(TerminatedLines(completion))

\* The steps the claim describes: the block runs from the first start
\* delimiter to the first end delimiter after it, or to the end of the buffer;
\* each of its lines that begins with STEP: gives one entry, the marker
\* removed and the rest trimmed.
ClaimedSteps(content) ==
    LET s == indexOfFrom(content, SSTART, 1)
    IN  IF s = 0 THEN <<>>
        ELSE LET b == s + Len(SSTART)
                 e == indexOfFrom(content, SEND, b)
                 block == SubSeq(content, b, IF e = 0 THEN Len(content) ELSE e - 1)
                 marked == SelectSeq(splitLines(block), LAMBDA line : startsWith(line, STEP))
             IN  [j \in 1 .. Len(marked) |->
                     trim(SubSeq(marked[j], Len(STEP) + 1, Len(marked[j])))]

\* C11: the parser returns one entry for every line of the steps block that
\* begins with STEP:, in order, the marker stripped and the rest trimmed, so
\* that no entry still begins with STEP:; lines outside the block, and all
\* lines when the start delimiter is absent, give nothing.
C11_StepsOfBlock ==
    pc = "parsed" =>
        /\ parsedData.steps = ClaimedSteps(completion)
        /\ \A j \in 1 .. Len(parsedData.steps) :
              ~startsWith(parsedData.steps[j], STEP)

\* C12: when the buffer grows, every concise entry of the shorter buffer is
\* still there, at the same position, in the parse of the longer one.
C12_ConciseMonotonic ==
    [][IsPrefixOf(parsedData.conciseInstructions,
                  parsedData'.conciseInstructions)]_vars

(***************************************************************************)
(* Claims about the step adjuster.                                         *)
(***************************************************************************)
Adjusted == Returned("adjustInstructionText") /\ call.stepSize \in StepSizes

\* The markers of a text: first brace and last digit of every {{digits}}.
MarkersOf(text) ==
    {<<i, j>> \in (1 .. Len(text)) \X (1 .. Len(text)) :
        /\ i + 2 <= j
        /\ j + 2 <= Len(text)
        /\ text[i] = "{" /\ text[i + 1] = "{"
        /\ text[j + 1] = "}" /\ text[j + 2] = "}"
        /\ \A k \in i + 2 .. j : IsDigit(text[k])}

HasMarker(text) == MarkersOf(text) # {}

FirstMarker(text) ==
    CHOOSE m \in MarkersOf(text) : \A n \in MarkersOf(text) : m[1] <= n[1]

\* The value of a string of digits, read from the left.
RECURSIVE ValueFrom(_, _)
ValueFrom(digits, acc) ==
    IF digits = <<>> THEN acc
    ELSE ValueFrom(Tail(digits), 10 * acc + DigitValue(Head(digits)))

WithoutBraces(text) == SelectSeq(text, LAMBDA c : c # "{" /\ c # "}")

\* v is a nearest integer to n * tenths / 10
IsNearest(v, n, tenths) ==
    /\ 10 * v - n * tenths <= 5
    /\ n * tenths - 10 * v <= 5

ClaimedTenths(size) ==
    CASE size = "SMALL" -> 14
      [] size = "MEDIUM" -> 10
      [] size = "LARGE" -> 7

MaxShown == 200

\* C13: a text with a marker {{N}} comes back with the marker replaced by the
\* decimal numeral of N * m rounded to the nearest integer, m = 1.4, 1.0, 0.7
\* for SMALL, MEDIUM, LARGE; N = 10 is shown as 14, 10 and 7; SMALL never
\* shows fewer steps than LARGE for the same N.
C13_MarkerRescaled ==
    (Adjusted /\ HasMarker(call.text)) =>
        LET m == FirstMarker(call.text)
            N == ValueFrom(SubSeq(call.text, m[1] + 2, m[2]), 0)
            before == WithoutBraces(SubSeq(call.text, 1, m[1] - 1))
            after == WithoutBraces(SubSeq(call.text, m[2] + 3, Len(call.text)))
            bare == SubSeq(call.text, m[1], m[2] + 2)
        IN  /\ \E v \in 0 .. MaxShown :
                 /\ IsNearest(v, N, ClaimedTenths(call.stepSize))
                 /\ ret = before \o toString(v) \o after
                 /\ N = 10 =>
                       v = (CASE call.stepSize = "SMALL" -> 14
                              [] call.stepSize = "MEDIUM" -> 10
                              [] call.stepSize = "LARGE" -> 7)
            /\ ValueFrom(adjustInstructionText(bare, "SMALL"), 0)
                  >= ValueFrom(adjustInstructionText(bare, "LARGE"), 0)

C13_Witness ==
    /\ Adjusted
    /\ call.text = <<"W">> \o Marker(<<"1", "0">>)
    /\ call.stepSize = "SMALL"
    /\ ret = <<"W", "1", "4">>

\* C14: a text with no {{N}} marker comes back unchanged, character for
\* character, for every step size.
C14_NoMarkerUnchanged ==
    (Adjusted /\ ~HasMarker(call.text)) => ret = call.text

\* C15: the output has no brace; the first marker alone is rescaled, and a
\* further marker loses its braces and keeps its numeral as written.
C15_NoBracesFirstMarkerOnly ==
    Adjusted =>
        /\ \A k \in 1 .. Len(ret) : ret[k] # "{" /\ ret[k] # "}"
        /\ \A m \in MarkersOf(call.text), n \in MarkersOf(call.text) :
              (m = FirstMarker(call.text) /\ n[1] > m[1]
                 /\ MarkersOf(call.text) = {m, n}) =>
                 \E v \in 0 .. MaxShown :
                    /\ IsNearest(v, ValueFrom(SubSeq(call.text, m[1] + 2, m[2]), 0),
                                 ClaimedTenths(call.stepSize))
                    /\ ret = WithoutBraces(SubSeq(call.text, 1, m[1] - 1))
                                \o toString(v)
                                \o WithoutBraces(SubSeq(call.text, m[2] + 3, n[1] - 1))
                                \o SubSeq(call.text, n[1] + 2, n[2])
                                \o WithoutBraces(SubSeq(call.text, n[2] + 3, Len(call.text)))

C15_Witness ==
    /\ Adjusted
    /\ call.text = Marker(<<"5">>) \o <<"}">> \o Marker(<<"1", "0">>)
    /\ call.stepSize = "SMALL"
    /\ ret = <<"7", "1", "0">>

(***************************************************************************)
(* Claims about the display of saved instructions.                         *)
(***************************************************************************)
\* C16: once the user has chosen a stride preference, whatever was chosen
\* before, the instructions displayed are the stored strings passed through
\* the step adjuster with the preference chosen last; and choosing a
\* preference issues no save and starts no generation.
C16_DisplayFollowsLastChoice ==
    selected # NoValue =>
        /\ displayed = render(instructionSet[1], selected)
        /\ saveCalls = <<>>
        /\ completion = <<>>

\* The same for a user who is not logged in, for whom no settings are fetched.
C16_LoggedOutProbe ==
    (selected # NoValue /\ ~isLoggedIn) =>
        displayed = render(instructionSet[1], selected)

(***************************************************************************)
(* Claims about saving.                                                    *)
(***************************************************************************)
SaveIssued == Len(saveCalls') > Len(saveCalls)

LastSave == saveCalls[Len(saveCalls)]

\* C17: every save sends the parser's output as it is, markers and all: the
\* descriptive list is the parsed steps and the concise list the parsed
\* concise lines, whatever the user's step size.
C17_SavesParsedStrings ==
    [][SaveIssued =>
          /\ saveCalls'[Len(saveCalls')].descriptiveInstructions
                = parseCompletionContent(completion).steps
          /\ saveCalls'[Len(saveCalls')].conciseInstructions
                = parseCompletionContent(completion).conciseInstructions]_vars

C17_Witness ==
    /\ saveCalls # <<>>
    /\ stepSize = "SMALL"
    /\ LastSave.descriptiveInstructions = <<<<"W">> \o Marker(<<"1", "0">>)>>
    /\ LastSave.conciseInstructions = <<<<"b">> \o Marker(<<"5">>)>>
    /\ adjustAll(LastSave.descriptiveInstructions, stepSize) = <<<<"W", "1", "4">>>>

\* C18: no save carries an empty descriptive list; a stream that has ended
\* with no parsed step makes the bulk hook report failure without saving.
C18_NoEmptySave ==
    /\ \A k \in 1 .. Len(saveCalls) : saveCalls[k].descriptiveInstructions # <<>>
    /\ (caller = "bulk" /\ pc = "returned" /\ parsedData.steps = <<>>) =>
          /\ saveCalls = <<>>
          /\ results = <<[pathId |-> 1, success |-> FALSE]>>

C18_Witness ==
    /\ caller = "bulk"
    /\ pc = "returned"
    /\ completion \in Responses
    /\ pending = <<>>
    /\ parsedData.steps = <<>>
    /\ saveCalls = <<>>
    /\ results = <<[pathId |-> 1, success |-> FALSE]>>

\* C19: a save is issued only for a stream that has completed, that is for a
\* whole response with its end delimiters; a generation that fails issues no
\* save and leaves the saved instruction set as it was.
C19_NoPartialSave ==
    [][SaveIssued => (completion \in Responses /\ pending = <<>>)]_vars

\* C23: once the page has been left while a path was being generated, the
\* read is cancelled: no save is issued for it and the saved InstructionSet
\* stays as it was at the cancellation.
C23_CancelledReadSavesNothing ==
    [][navigatedAway => (~SaveIssued /\ instructionSet' = instructionSet)]_vars

(***************************************************************************)
(* Claims about bulk generation.                                           *)
(***************************************************************************)
EntriesOf(pathId) == {k \in 1 .. Len(results) : results[k].pathId = pathId}

\* C20: whatever paths succeed and fail, every path is attempted: no path
\* ever has two entries, and when bulk generation has finished no request is
\* outstanding, the results hold exactly one entry for every input path, and
\* the success count reported is the number of entries whose success is true.
C20_OneResultPerPath ==
    /\ \A i \in 1 .. Len(paths) : Cardinality(EntriesOf(paths[i])) <= 1
    /\ pc = "complete" =>
          /\ inFlight = {}
          /\ Len(results) = Len(paths)
          /\ \A i \in 1 .. Len(paths) : Cardinality(EntriesOf(paths[i])) = 1
          /\ finalResults = Cardinality({k \in 1 .. Len(results) : results[k].success})

C20_Witness ==
    /\ pc = "complete"
    /\ Len(paths) = 3
    /\ results[1] = [pathId |-> 2, success |-> FALSE]
    /\ results[2] = [pathId |-> 3, success |-> TRUE]
    /\ results[3] = [pathId |-> 1, success |-> FALSE]
    /\ finalResults = 1

\* The batch that position i of the input falls in
BatchOf(i) == (i - 1) \div batchSize

\* The positions of the paths that have a result, and of those started
FinishedPaths ==
    {i \in 1 .. Len(paths) :
        /\ paths[i] \in {results[k].pathId : k \in 1 .. Len(results)}
        /\ paths[i] \notin inFlight}

StartedPaths ==
    {i \in 1 .. Len(paths) :
        \/ paths[i] \in {results[k].pathId : k \in 1 .. Len(results)}
        \/ paths[i] \in inFlight}

\* C21: at no time are more than 10 generation requests in flight; every path
\* of an earlier batch has finished (with or without success) before a path
\* of a later batch is started, and the paths are started in input order,
\* batch by batch.
C21_BatchesInSequence ==
    /\ Cardinality(inFlight) <= 10
    /\ \A started \in {StartedPaths}, finished \in {FinishedPaths} :
          \A j \in started :
             /\ BatchOf(j) <= batchIndex
             /\ \A i \in 1 .. j : i \in started
             /\ \A i \in 1 .. j : BatchOf(i) < BatchOf(j) => i \in finished

\* The second batch is in flight after a first batch of ten that finished in
\* reverse input order, its first path with an error
C21_Witness ==
    /\ pc = "await"
    /\ batchIndex = 1
    /\ inFlight = {11}
    /\ Len(results) = 10
    /\ results[1] = [pathId |-> 10, success |-> TRUE]
    /\ results[10] = [pathId |-> 1, success |-> FALSE]

\* The calls applied by the step: pending before it, successful after it
AppliedNow ==
    {k \in 1 .. Len(saveCalls) :
        saveCalls[k].state = "pending" /\ saveCalls'[k].state = "success"}

ListsOf(input) ==
    [descriptiveInstructions |-> input.descriptiveInstructions,
     conciseInstructions |-> input.conciseInstructions]

\* C22: each path has at most one InstructionSet; a save that is applied
\* leaves its two lists as the InstructionSet of its path, whatever was there
\* and whatever order the saves were issued in, and the InstructionSet of a
\* path changes only when a save for that path is applied.
C22_UpsertLastWriterWins ==
    /\ [](\A p \in DOMAIN instructionSet : Len(instructionSet[p]) <= 1)
    /\ [][/\ \A k \in AppliedNow :
                instructionSet'[saveCalls[k].pathId] = <<ListsOf(saveCalls[k])>>
          /\ \A p \in DOMAIN instructionSet :
                instructionSet'[p] # instructionSet[p]
                    => \E k \in AppliedNow : saveCalls[k].pathId = p]_vars

\* A save issued first is applied last and replaces the lists of the save
\* issued after it, while the other path keeps the set it had
C22_Witness ==
    /\ Len(saveCalls) = 2
    /\ saveCalls[1].pathId = 1
    /\ saveCalls[2].pathId = 1
    /\ saveCalls[1].state = "success"
    /\ saveCalls[2].state = "success"
    /\ ListsOf(saveCalls[1]) # ListsOf(saveCalls[2])
    /\ instructionSet[1] = <<ListsOf(saveCalls[1])>>
    /\ instructionSet[2] = <<PreviousSet>>

\* C28: when bulk generation has finished, the progress last reported counts
\* every path, completedPaths + failedPaths = totalPaths, completedPaths is
\* the number of paths that succeeded, and every path's status is completed
\* or failed.
C28_FinalProgressCountsEveryPath ==
    pc = "complete" =>
        /\ progress.completedPaths + progress.failedPaths = progress.totalPaths
        /\ progress.totalPaths = Len(paths)
        /\ progress.completedPaths
              = Cardinality({k \in 1 .. Len(results) : results[k].success})
        /\ \A p \in DOMAIN progress.pathStatuses :
              progress.pathStatuses[p] \in {"completed", "failed"}

(***************************************************************************)
(* Claims about the direction values.                                      *)
(***************************************************************************)
SpecDirections == {"forward", "backward", "left", "right"}

\* C25: every segment calculatePathSegments produces has a direction from
\* {forward, backward, left, right}, and so has every facingDirection that
\* calculateRelativeDirections sets.
C25_DirectionsFromTheFour ==
    /\ \A i \in 1 .. Len(segments) : segments[i].direction \in SpecDirections
    /\ \A i \in 1 .. Len(relative) :
          /\ relative[i].direction \in SpecDirections
          /\ relative[i].facingDirection \in SpecDirections

(***************************************************************************)
(* Claims about the generation handler and the prompt.                     *)
(***************************************************************************)
Responded == pc = "responded" /\ call.fn = "POST /generate-instructions"

NamesExistingPath(body) ==
    body.json /\ ~promptThrows(body) /\ pathIdOf(body) = ExistingPath

\* A prompt that is a JSON object with no pathId, or with a null or empty one
PromptWithoutPathId(body) ==
    body.json /\ ~promptThrows(body) /\ pathIdOf(body) \in {"undefined", "null", ""}

RelativizerPhrases ==
    {"Move forward", "Turn right and move forward", "Turn left and move forward"}

\* C26: the MOVEMENT SEGMENTS block of the handler's prompt has one numbered
\* line per segment, and the relativeDirection of each line is the phrase
\* calculateRelativeDirections of the library gives that segment: "Move
\* forward" for the first, and "Move forward", "Turn right and move forward"
\* or "Turn left and move forward" for the later ones.
C26_PromptUsesRelativizerPhrases ==
    (Responded /\ ret.stream) =>
        \A library \in {calculateRelativeDirections(calculatePathSegments(anchors, rooms))} :
            /\ Len(ret.prompt) = Len(library)
            /\ \A i \in 1 .. Len(ret.prompt) :
                  /\ ret.prompt[i] = movementLine(i, relative[i])
                  /\ relative[i].relativeDirection \in RelativizerPhrases
                  /\ relative[i].relativeDirection = library[i].relativeDirection

\* "<n>. <relativeDirection> {{<steps>}} steps"
ClaimedLine(n, segment) ==
    toString(n) \o <<".", " ">> \o chars(segment.relativeDirection)
        \o <<" ", "{", "{">> \o toString(segment.steps)
        \o <<"}", "}", " ", "s", "t", "e", "p", "s">>

\* C27: the concise list the builder makes has one line per segment, in
\* order, of the form "<n>. <relativeDirection> {{<steps>}} steps", n from 1,
\* with exactly one {{N}} marker; and the parse of a response that carries
\* that list between C: and EC in the requested format returns it unchanged,
\* the empty list included.
C27_ConciseRoundTrip ==
    /\ (pc \in {"streaming", "received", "parsed"} /\ call.fn = "generateInstructions") =>
          /\ Len(ret.conciseInstructions) = Len(relative)
          /\ Len(relative) = Len(segments)
          /\ \A i \in 1 .. Len(relative) :
                /\ ret.conciseInstructions[i] = ClaimedLine(i, relative[i])
                /\ relative[i].steps = segments[i].steps
                /\ Cardinality(MarkersOf(ret.conciseInstructions[i])) = 1
    /\ (pc = "parsed" /\ call.fn = "generateInstructions") =>
          parsedData.conciseInstructions = ret.conciseInstructions

\* A path of two segments, the second a right turn of 5 steps after 100
\* steps, has gone through the builder and the parser
C27_Witness ==
    /\ pc = "parsed"
    /\ call.fn = "generateInstructions"
    /\ Len(parsedData.steps) = 2
    /\ Len(parsedData.conciseInstructions) = 2
    /\ parsedData.conciseInstructions[1] =
          <<"1", ".", " ", "M", "o", "v", "e", " ", "f", "o", "r", "w", "a", "r", "d",
            " ", "{", "{", "1", "0", "0", "}", "}", " ", "s", "t", "e", "p", "s">>
    /\ relative[2].relativeDirection = "Turn right and move forward"
    /\ segments[2].steps = 5

\* The empty segment list has made the round trip
C27_EmptyRoundTrip ==
    /\ pc = "parsed"
    /\ call.fn = "generateInstructions"
    /\ segments = <<>>
    /\ parsedData.conciseInstructions = <<>>

(***************************************************************************)
(* Claims about path creation in the floor editor.                         *)
(***************************************************************************)
RoomOf(id) == floorRooms[CHOOSE i \in 1 .. Len(floorRooms) : floorRooms[i].id = id]

AxisAligned(p, q) == p.x = q.x \/ p.y = q.y

\* C29: a path handed to onPathCreate has at least 2 anchors, starts at the
\* source room's door and ends at the destination room's door, both snapped
\* to the centre of their grid cell, connects two different rooms, and every
\* two consecutive anchors, the last two included, share their x or their y.
C29_CreatedPathIsOrthogonal ==
    \A k \in 1 .. Len(createdPath) :
        LET path == createdPath[k]
            n == Len(path.anchors)
        IN  /\ n >= 2
            /\ path.fromRoomId # path.toRoomId
            /\ path.anchors[1] = snapToGridCenter(doorPosition(RoomOf(path.fromRoomId)))
            /\ path.anchors[n] = snapToGridCenter(doorPosition(RoomOf(path.toRoomId)))
            /\ \A i \in 1 .. n - 1 : AxisAligned(path.anchors[i], path.anchors[i + 1])

\* C30: while the path is drawn currentPathPoints holds at least one point,
\* whatever is undone; while no path is being created currentPathPoints is
\* empty and pathDestinationRoomId is null; and a cancel, from the choice of
\* the destination or from the drawing, leads to idle.
C30_PathCreationStates ==
    /\ [](pathCreationState = "drawing_path" => Len(currentPathPoints) >= 1)
    /\ [](pathCreationState = "idle" =>
             (currentPathPoints = <<>> /\ pathDestinationRoomId = "null"))
    /\ [][HandlePathCreateCancel =>
             (pathCreationState' = "idle" /\ currentPathPoints' = <<>>
                 /\ pathDestinationRoomId' = "null")]_vars

\* A second path is being drawn, after a first was completed, and holds the
\* source door and one more point, which can be undone
C30_Witness ==
    /\ pathCreationState = "drawing_path"
    /\ Len(currentPathPoints) = 2
    /\ pathDestinationRoomId = "r1"
    /\ Len(createdPath) = 1
    /\ createdPath[1].toRoomId = "r2"

====
